---- MODULE Spec2Model ----
(***************************************************************************)
(* mod_websocket: the data framing loop, the frame writer shared by the    *)
(* read loop and the plugin threads, and the request handler's session     *)
(* life cycle (src/mod_websocket.c), with the two test plugins             *)
(* (src/test/plugins/debug_v0.c, src/test/plugins/threads.c).              *)
(***************************************************************************)
EXTENDS Integers, Sequences, FiniteSets, TLC

(***************************************************************************)
(* Bounds of the model.                                                    *)
(***************************************************************************)
\* frames the client sends on one connection
MaxFrames == 3
\* frames the client sends on one connection served by the threads plugin
MaxThreadFrames == 1
\* frames the client sends on one connection with oversize control frames
MaxOversizeFrames == 1
\* value of tdata->count each sender thread of the threads plugin starts at
\* (1000 in threads.c)
MaxCount == 1
\* the protocol_set calls the "chooser" plugin makes in on_connect, at most
MaxChoices == 2
\* the frames the client of SpecHandshake sends, at most
MaxHandshakeFrames == 2
MaxLengthFrames == 1
MaxFragmentFrames == 2
MaxSinkFrames == 1
MaxUnknownFrames == 2
MaxCutFrames == 2

(***************************************************************************)
(* Program constants (mod_websocket.c:49-77).                              *)
(***************************************************************************)
BLOCK_DATA_SIZE == 4096

DATA_FRAMING_MASK == 0
DATA_FRAMING_START == 1
DATA_FRAMING_PAYLOAD_LENGTH == 2
DATA_FRAMING_PAYLOAD_LENGTH_EXT == 3
DATA_FRAMING_EXTENSION_DATA == 4
DATA_FRAMING_APPLICATION_DATA == 5
DATA_FRAMING_CLOSE == 6

OPCODE_CONTINUATION == 0
OPCODE_TEXT == 1
OPCODE_BINARY == 2
OPCODE_CLOSE == 8
OPCODE_PING == 9
OPCODE_PONG == 10

\* apr_int64_t payload_limit = 33554432
payload_limit == 33554432

\* websocket_plugin.h is not part of the sources: the message types are
\* kept symbolic.
MESSAGE_TYPE_INVALID == "INVALID"
MESSAGE_TYPE_TEXT == "TEXT"
MESSAGE_TYPE_BINARY == "BINARY"
MESSAGE_TYPE_PING == "PING"
MESSAGE_TYPE_PONG == "PONG"
MESSAGE_TYPE_CLOSE == "CLOSE"

(***************************************************************************)
(* Bit operations on bytes.                                                *)
(***************************************************************************)
RECURSIVE ShiftRight(_, _)
\* x >> n
ShiftRight(x, n) == IF n = 0 THEN x ELSE ShiftRight(x \div 2, n - 1)

RECURSIVE BitXor(_, _, _)
\* a ^ b on the low n bits
BitXor(a, b, n) ==
    IF n = 0 THEN 0
    ELSE ((a + b) % 2) + 2 * BitXor(a \div 2, b \div 2, n - 1)

RECURSIVE BitOr(_, _, _)
\* a | b on the low n bits
BitOr(a, b, n) ==
    IF n = 0 THEN 0
    ELSE (IF (a % 2) + (b % 2) > 0 THEN 1 ELSE 0)
         + 2 * BitOr(a \div 2, b \div 2, n - 1)

RECURSIVE BitAnd(_, _, _)
\* a & b on the low n bits
BitAnd(a, b, n) ==
    IF n = 0 THEN 0
    ELSE ((a % 2) * (b % 2)) + 2 * BitAnd(a \div 2, b \div 2, n - 1)

FRAME_GET_FIN(BYTE) == ShiftRight(BYTE, 7) % 2
FRAME_GET_RSV1(BYTE) == ShiftRight(BYTE, 6) % 2
FRAME_GET_RSV2(BYTE) == ShiftRight(BYTE, 5) % 2
FRAME_GET_RSV3(BYTE) == ShiftRight(BYTE, 4) % 2
FRAME_GET_OPCODE(BYTE) == BYTE % 16
FRAME_GET_MASK(BYTE) == ShiftRight(BYTE, 7) % 2
FRAME_GET_PAYLOAD_LEN(BYTE) == BYTE % 128

FRAME_SET_FIN(BYTE) == (BYTE % 2) * 128
FRAME_SET_OPCODE(BYTE) == BYTE % 16
FRAME_SET_MASK(BYTE) == (BYTE % 2) * 128
FRAME_SET_LENGTH(X64, IDX) == ShiftRight(X64, IDX * 8) % 256

(***************************************************************************)
(* mod_websocket_data_framing: the locals of the function as one record,   *)
(* and one pass through the switch of the inner loop (lines 411-600), from *)
(* the case framing_state selects, through the cases it falls into, to the *)
(* break that ends the pass.  The pass stops where the payload of a frame  *)
(* is complete (line 554): the dispatch that follows calls the frame       *)
(* writer and the plugin and is a sequence of actions of its own.          *)
(***************************************************************************)

\* WebSocketFrameData control_frame = {0, NULL, 1, 8}
InitControlFrame ==
    [application_data_offset |-> 0, application_data |-> <<>>,
     allocated |-> 0, fin |-> 1, opcode |-> 8]

\* WebSocketFrameData message_frame = {0, NULL, 1, 0}
InitMessageFrame ==
    [application_data_offset |-> 0, application_data |-> <<>>,
     allocated |-> 0, fin |-> 1, opcode |-> 0]

\* the locals at lines 388-400.  application_data holds the bytes written so
\* far into the buffer of size `allocated` (0: the pointer is NULL);
\* application_data_offset is the block-scope local of line 534, kept while
\* the dispatch of a complete frame is pending; trapped is no local: it says
\* that a trapping operation has stopped the process inside the function.
InitLocals ==
    [block |-> <<>>, block_offset |-> 0,
     extension_bytes_remaining |-> 0,
     payload_length |-> 0, mask_offset |-> 0,
     framing_state |-> DATA_FRAMING_START,
     payload_length_bytes_remaining |-> 0,
     mask_index |-> 0, masking |-> 0,
     mask |-> <<0, 0, 0, 0>>,
     fin |-> 0, opcode |-> 255,
     control_frame |-> InitControlFrame,
     message_frame |-> InitMessageFrame,
     frame |-> "control_frame",
     application_data_offset |-> 0,
     complete |-> FALSE,
     trapped |-> FALSE]

block_size(s) == Len(s.block)

\* block[block_offset]
CurByte(s) == s.block[s.block_offset + 1]

Min(a, b) == IF a < b THEN a ELSE b

\* a faulty variant of the unmasking: the index into the key restarts at 0
\* with every read block
UnmaskBlockBadIndex(s, n) ==
    [i \in 1..n |->
        IF s.masking # 0
        THEN BitXor(s.block[s.block_offset + i], s.mask[((i - 1) % 4) + 1], 8)
        ELSE s.block[s.block_offset + i]]

\* lines 544-551: the bytes of block[block_offset .. block_offset+n) as they
\* are stored: XORed with mask[mask_offset++ & 3] when masking, copied
\* otherwise.
UnmaskBlock(s, n) ==
    [i \in 1..n |->
        IF s.masking # 0
        THEN BitXor(s.block[s.block_offset + i],
                    s.mask[((s.mask_offset + i - 1) % 4) + 1], 8)
        ELSE s.block[s.block_offset + i]]

\* case DATA_FRAMING_APPLICATION_DATA, lines 530-553 and 593-595
CaseApplicationData(s) ==
    LET fr == s[s.frame]
        block_length == block_size(s) - s.block_offset
        block_data_length == IF s.payload_length > block_length
                             THEN block_length ELSE s.payload_length
        stored == UnmaskBlock(s, block_data_length)
        offset == fr.application_data_offset + block_data_length
        s1 == [s EXCEPT ![s.frame].application_data = @ \o stored,
                        !.block_offset = @ + block_data_length,
                        !.mask_offset = IF s.masking # 0
                                        THEN @ + block_data_length ELSE @,
                        !.payload_length = @ - block_data_length]
    IN  IF s1.payload_length = 0
        THEN [s1 EXCEPT !.application_data_offset = offset,
                        !.complete = TRUE]
        ELSE [s1 EXCEPT ![s.frame].application_data_offset = offset]

\* case DATA_FRAMING_EXTENSION_DATA, lines 517-529.  realloc is taken to
\* succeed.
CaseExtensionData(s) ==
    IF s.extension_bytes_remaining = 0
    THEN LET fr == s[s.frame]
             s1 == IF s.payload_length > 0
                   THEN [s EXCEPT ![s.frame].allocated =
                            fr.application_data_offset + s.payload_length]
                   ELSE s
         IN  CaseApplicationData(
                [s1 EXCEPT !.framing_state = DATA_FRAMING_APPLICATION_DATA])
    ELSE CaseApplicationData(s)

RECURSIVE ReadMask(_)
\* lines 502-504
ReadMask(s) ==
    IF s.mask_index < 4 /\ s.block_offset < block_size(s)
    THEN ReadMask([s EXCEPT !.mask[s.mask_index + 1] = CurByte(s),
                            !.mask_index = @ + 1,
                            !.block_offset = @ + 1])
    ELSE s

\* case DATA_FRAMING_MASK, lines 501-516

CaseMask(s) ==
    LET s1 == ReadMask(s)
    IN  IF s1.mask_index = 4
        THEN CaseExtensionData(
               [s1 EXCEPT !.framing_state = DATA_FRAMING_EXTENSION_DATA,
                          !.mask_offset = 0,
                          !.mask_index = 0,
                          !.masking = IF s1.mask = <<0, 0, 0, 0>>
                                      THEN 0 ELSE @])
        ELSE s1

(***************************************************************************)
(* payload_length is an apr_int64_t (line 392).  A value below Exact is    *)
(* itself.  A larger one is kept as the number of its bytes and the high   *)
(* bit of its first byte: it is only ever compared, it is greater than     *)
(* payload_limit, and its product with 256 leaves the 63 bits of the type  *)
(* exactly when it has seven bytes and the high bit of the first is set    *)
(* (2^55 or more).  An extended length has at most eight bytes, so the     *)
(* product can overflow only at the last of eight.                         *)
(***************************************************************************)
Exact == 1073741824

Wide(bytes, high) == Exact + 2 * bytes + high

WideBytes(v) == (v - Exact) \div 2

WideHigh(v) == (v - Exact) % 2

\* payload_length * 256 is not an apr_int64_t
Overflows(payload_length) ==
    /\ payload_length >= Exact
    /\ WideBytes(payload_length) = 7
    /\ WideHigh(payload_length) = 1

\* what the two's complement product of an overflowing payload_length is:
\* bit 55 of the value becomes the sign bit, so it is negative; negative
\* values are only tested for their sign (line 486)
Negative == -1

\* The overflow of a signed multiplication is undefined: a build either
\* lets the machine's multiplication wrap, or (-ftrapv, a sanitizer)
\* stops the process at it.
VARIABLE overflow

OverflowOutcomes == {"wraps", "traps"}

\* payload_length *= 256; payload_length += block[block_offset++], where
\* the product wraps
LengthAccumulate(payload_length, byte) ==
    IF payload_length < Exact \div 256 THEN payload_length * 256 + byte
    ELSE IF payload_length < 16777216
    THEN Wide(4, IF payload_length >= 8388608 THEN 1 ELSE 0)
    ELSE IF payload_length < Exact THEN Wide(5, 0)
    ELSE IF Overflows(payload_length) THEN Negative
    ELSE Wide(WideBytes(payload_length) + 1, WideHigh(payload_length))

RECURSIVE ReadLengthExt(_)
\* lines 481-485; a trapping overflow ends the loop and everything else
ReadLengthExt(s) ==
    IF s.payload_length_bytes_remaining > 0 /\ s.block_offset < block_size(s)
    THEN IF Overflows(s.payload_length) /\ overflow = "traps"
         THEN [s EXCEPT !.trapped = TRUE]
         ELSE ReadLengthExt(
                [s EXCEPT !.payload_length = LengthAccumulate(@, CurByte(s)),
                          !.block_offset = @ + 1,
                          !.payload_length_bytes_remaining = @ - 1])
    ELSE s

\* case DATA_FRAMING_PAYLOAD_LENGTH_EXT, lines 480-500
CasePayloadLengthExt(s) ==
    LET s1 == ReadLengthExt(s)
        s2 == IF s1.trapped \/ s1.payload_length_bytes_remaining # 0
              THEN s1
              ELSE IF s1.payload_length < 0
                      \/ s1.payload_length > payload_limit
              THEN [s1 EXCEPT !.framing_state = DATA_FRAMING_CLOSE]
              ELSE IF s1.masking # 0
              THEN [s1 EXCEPT !.framing_state = DATA_FRAMING_MASK]
              ELSE [s1 EXCEPT !.framing_state = DATA_FRAMING_EXTENSION_DATA]
    IN  IF s2.framing_state # DATA_FRAMING_MASK
           \/ s2.payload_length_bytes_remaining # 0
           \/ s2.block_offset >= block_size(s2)
        THEN s2
        ELSE CaseMask(s2)

\* a faulty variant of the length byte: a frame without MASK is let through
CasePayloadLengthNoMaskCheck(s) ==
    LET len7 == FRAME_GET_PAYLOAD_LEN(CurByte(s))
        s1 == [s EXCEPT !.masking = FRAME_GET_MASK(CurByte(s)),
                        !.block_offset = @ + 1,
                        !.payload_length =
                            IF len7 = 126 \/ len7 = 127 THEN 0 ELSE len7,
                        !.payload_length_bytes_remaining =
                            IF len7 = 126 THEN 2
                            ELSE IF len7 = 127 THEN 8 ELSE 0]
    IN  IF s1.opcode >= 8 /\ s1.payload_length > 125
        THEN [s1 EXCEPT !.framing_state = DATA_FRAMING_CLOSE]
        ELSE LET s2 == [s1 EXCEPT !.framing_state =
                                      DATA_FRAMING_PAYLOAD_LENGTH_EXT]
             IN  IF s2.block_offset >= block_size(s2)
                 THEN s2
                 ELSE CasePayloadLengthExt(s2)

\* case DATA_FRAMING_PAYLOAD_LENGTH, lines 456-479
CasePayloadLength(s) ==
    LET len7 == FRAME_GET_PAYLOAD_LEN(CurByte(s))
        s1 == [s EXCEPT !.masking = FRAME_GET_MASK(CurByte(s)),
                        !.block_offset = @ + 1,
                        !.payload_length =
                            IF len7 = 126 \/ len7 = 127 THEN 0 ELSE len7,
                        !.payload_length_bytes_remaining =
                            IF len7 = 126 THEN 2
                            ELSE IF len7 = 127 THEN 8 ELSE 0]
    IN  IF s1.masking = 0 \/ (s1.opcode >= 8 /\ s1.payload_length > 125)
        THEN [s1 EXCEPT !.framing_state = DATA_FRAMING_CLOSE]
        ELSE LET s2 == [s1 EXCEPT !.framing_state =
                                      DATA_FRAMING_PAYLOAD_LENGTH_EXT]
             IN  IF s2.block_offset >= block_size(s2)
                 THEN s2
                 ELSE CasePayloadLengthExt(s2)

\* lines 450-455
StartDone(s) ==
    LET s1 == [s EXCEPT !.payload_length = 0,
                        !.payload_length_bytes_remaining = 0]
    IN  IF s1.block_offset >= block_size(s1)
        THEN s1
        ELSE CasePayloadLength(s1)

\* a faulty variant of the first byte of a message frame: the fragmentation
\* rules are not enforced
StartMessageFrameNoCheck(s, fin) ==
    LET s1 == [s EXCEPT !.frame = "message_frame"]
    IN  IF s1.opcode # 0
        THEN StartDone([s1 EXCEPT !.message_frame.opcode = s1.opcode,
                                  !.message_frame.fin = fin])
        ELSE StartDone([s1 EXCEPT !.opcode = s1.message_frame.opcode,
                                  !.message_frame.fin = fin])

\* lines 433-448: a message frame
StartMessageFrame(s, fin) ==
    LET s1 == [s EXCEPT !.frame = "message_frame"]
    IN  IF s1.opcode # 0
        THEN IF s1.message_frame.fin # 0
             THEN StartDone([s1 EXCEPT !.message_frame.opcode = s1.opcode,
                                       !.message_frame.fin = fin])
             ELSE [s1 EXCEPT !.framing_state = DATA_FRAMING_CLOSE]
        ELSE IF s1.message_frame.fin # 0
             THEN [s1 EXCEPT !.framing_state = DATA_FRAMING_CLOSE]
             ELSE LET s2 == [s1 EXCEPT !.opcode = s1.message_frame.opcode]
                  IN  IF s2.opcode = 0
                      THEN [s2 EXCEPT !.framing_state = DATA_FRAMING_CLOSE]
                      ELSE StartDone([s2 EXCEPT !.message_frame.fin = fin])

\* case DATA_FRAMING_START, lines 412-455
CaseStart(s) ==
    LET b == CurByte(s)
    IN  IF FRAME_GET_RSV1(b) # 0 \/ FRAME_GET_RSV2(b) # 0
           \/ FRAME_GET_RSV3(b) # 0
        THEN [s EXCEPT !.framing_state = DATA_FRAMING_CLOSE]
        ELSE LET s1 == [s EXCEPT !.fin = FRAME_GET_FIN(b),
                                 !.opcode = FRAME_GET_OPCODE(b),
                                 !.block_offset = @ + 1,
                                 !.framing_state = DATA_FRAMING_PAYLOAD_LENGTH]
             IN  IF s1.opcode >= 8
                 THEN IF s1.fin # 0
                      THEN StartDone(
                             [s1 EXCEPT !.frame = "control_frame",
                                        !.control_frame.opcode = s1.opcode])
                      ELSE [s1 EXCEPT !.framing_state = DATA_FRAMING_CLOSE]
                 ELSE StartMessageFrame(s1, s1.fin)

\* the switch of lines 411-600, entered with block_offset < block_size
SwitchPass(s) ==
    CASE s.framing_state = DATA_FRAMING_START -> CaseStart(s)
      [] s.framing_state = DATA_FRAMING_PAYLOAD_LENGTH -> CasePayloadLength(s)
      [] s.framing_state = DATA_FRAMING_PAYLOAD_LENGTH_EXT ->
            CasePayloadLengthExt(s)
      [] s.framing_state = DATA_FRAMING_MASK -> CaseMask(s)
      [] s.framing_state = DATA_FRAMING_EXTENSION_DATA -> CaseExtensionData(s)
      [] s.framing_state = DATA_FRAMING_APPLICATION_DATA ->
            CaseApplicationData(s)
      [] OTHER -> [s EXCEPT !.framing_state = DATA_FRAMING_CLOSE,
                            !.block_offset = block_size(s)]

(***************************************************************************)
(* mod_websocket_plugin_send: opcode and header of an outbound frame.      *)
(***************************************************************************)

\* lines 245-263: the opcode of a message type; MESSAGE_TYPE_CLOSE and every
\* unknown type share the default case
SendOpcode(type) ==
    CASE type = MESSAGE_TYPE_TEXT -> OPCODE_TEXT
      [] type = MESSAGE_TYPE_BINARY -> OPCODE_BINARY
      [] type = MESSAGE_TYPE_PING -> OPCODE_PING
      [] type = MESSAGE_TYPE_PONG -> OPCODE_PONG
      [] OTHER -> OPCODE_CLOSE

\* a faulty variant: no type sets state->closing
SetsClosingNever(type) == FALSE

\* lines 258-260: the types whose case sets state->closing
SetsClosing(type) ==
    type \notin {MESSAGE_TYPE_TEXT, MESSAGE_TYPE_BINARY,
                 MESSAGE_TYPE_PING, MESSAGE_TYPE_PONG}

\* variant: the 16-bit form is also taken for 65536, which it cannot hold
SendHeaderBytesWide16(opcode, payload_length) ==
    <<BitOr(FRAME_SET_FIN(1), FRAME_SET_OPCODE(opcode), 8)>> \o
    (IF payload_length < 126
     THEN <<BitOr(FRAME_SET_MASK(0), FRAME_SET_LENGTH(payload_length, 0), 8)>>
     ELSE (IF payload_length <= 65536
           THEN <<BitOr(FRAME_SET_MASK(0), 126, 8)>>
           ELSE <<BitOr(FRAME_SET_MASK(0), 127, 8),
                  FRAME_SET_LENGTH(payload_length, 7),
                  FRAME_SET_LENGTH(payload_length, 6),
                  FRAME_SET_LENGTH(payload_length, 5),
                  FRAME_SET_LENGTH(payload_length, 4),
                  FRAME_SET_LENGTH(payload_length, 3),
                  FRAME_SET_LENGTH(payload_length, 2)>>)
          \o <<FRAME_SET_LENGTH(payload_length, 1),
               FRAME_SET_LENGTH(payload_length, 0)>>)

\* lines 264-281: header[0..pos)
SendHeaderBytes(opcode, payload_length) ==
    <<BitOr(FRAME_SET_FIN(1), FRAME_SET_OPCODE(opcode), 8)>> \o
    (IF payload_length < 126
     THEN <<BitOr(FRAME_SET_MASK(0), FRAME_SET_LENGTH(payload_length, 0), 8)>>
     ELSE (IF payload_length < 65536
           THEN <<BitOr(FRAME_SET_MASK(0), 126, 8)>>
           ELSE <<BitOr(FRAME_SET_MASK(0), 127, 8),
                  FRAME_SET_LENGTH(payload_length, 7),
                  FRAME_SET_LENGTH(payload_length, 6),
                  FRAME_SET_LENGTH(payload_length, 5),
                  FRAME_SET_LENGTH(payload_length, 4),
                  FRAME_SET_LENGTH(payload_length, 3),
                  FRAME_SET_LENGTH(payload_length, 2)>>)
          \o <<FRAME_SET_LENGTH(payload_length, 1),
               FRAME_SET_LENGTH(payload_length, 0)>>)

(***************************************************************************)
(* The peer.  A client frame is a record of the fields of the wire format; *)
(* ClientBytes is its byte string (base framing protocol: first byte FIN,  *)
(* RSV1-3 and opcode, second byte MASK and the 7-bit length, the extended  *)
(* length, the masking key, the masked payload).                           *)
(***************************************************************************)
K0 == <<0, 0, 0, 0>>
K1 == <<1, 2, 3, 4>>

\* ASCII
ab == <<97, 98>>
abcde == <<97, 98, 99, 100, 101>>
x == <<120>>
hi == <<104, 105>>
close == <<99, 108, 111, 115, 101>>
version == <<118, 101, 114, 115, 105, 111, 110>>

ClientFrame(fin, rsv, opcode, masked, lenform, key, payload) ==
    [fin |-> fin, rsv |-> rsv, opcode |-> opcode, masked |-> masked,
     lenform |-> lenform, key |-> key, payload |-> payload]

\* a masked frame with RSV = 0 and the shortest length form
Masked(fin, opcode, key, payload) ==
    ClientFrame(fin, 0, opcode, 1, 7, key, payload)

RECURSIVE BigEndian(_, _)
\* v as n bytes, most significant first
BigEndian(v, n) ==
    IF n = 0 THEN <<>> ELSE BigEndian(v \div 256, n - 1) \o <<v % 256>>

\* the payload as it travels: payload[i] XOR key[i mod 4] when masked
ClientCipher(f) ==
    [i \in 1..Len(f.payload) |->
        IF f.masked = 1
        THEN BitXor(f.payload[i], f.key[((i - 1) % 4) + 1], 8)
        ELSE f.payload[i]]

ClientHeader(f) ==
    <<f.fin * 128 + f.rsv * 16 + f.opcode>> \o
    (CASE f.lenform = 7 -> <<f.masked * 128 + Len(f.payload)>>
       [] f.lenform = 16 -> <<f.masked * 128 + 126>>
                              \o BigEndian(Len(f.payload), 2)
       [] OTHER -> <<f.masked * 128 + 127>> \o BigEndian(Len(f.payload), 8))
    \o (IF f.masked = 1 THEN f.key ELSE <<>>)

ClientBytes(f) == ClientHeader(f) \o ClientCipher(f)

\* the frames the client of Spec chooses from
Frames ==
    { Masked(1, OPCODE_TEXT, K1, close),
      Masked(1, OPCODE_TEXT, K1, version),
      Masked(0, OPCODE_TEXT, K1, ab),
      Masked(0, OPCODE_BINARY, K0, ab),
      Masked(1, OPCODE_BINARY, K1, <<>>),
      Masked(0, OPCODE_CONTINUATION, K1, x),
      Masked(1, OPCODE_CONTINUATION, K1, abcde),
      Masked(1, OPCODE_PING, K1, x),
      Masked(1, OPCODE_PING, K0, <<>>),
      Masked(1, OPCODE_PONG, K1, x),
      Masked(1, OPCODE_CLOSE, K1, <<>>),
      \* protocol violations
      ClientFrame(1, 4, OPCODE_TEXT, 1, 7, K1, ab),
      ClientFrame(1, 0, OPCODE_TEXT, 0, 7, K0, hi),
      ClientFrame(1, 0, OPCODE_PING, 0, 7, K0, <<>>),
      Masked(0, OPCODE_PING, K1, x),
      Masked(1, 3, K1, x),
      Masked(1, 11, K1, <<>>) }

(***************************************************************************)
(* State.                                                                  *)
(***************************************************************************)
VARIABLES
    plugin,         \* the plugin bound to the location: "debug_v0", "threads"
    pc,             \* where the connection thread is in the request handler
    plugin_private, \* what on_connect returned ("NULL" before and without)
    response,       \* "101" once ap_send_interim_response has run
    obb,            \* state->obb: "NULL" or "brigade"
    closing,        \* state->closing
    mutex,          \* holder of state->mutex, Free when unlocked
    loc,            \* the locals of mod_websocket_data_framing
    send,           \* per thread, its call of mod_websocket_plugin_send
    wire,           \* what ap_fwrite has put into the output, in order
    pending,        \* bytes the client has sent and the server has not read
    sent,           \* the frames the client has sent, in order
    ndispatched,    \* how many of them the loop has dispatched (line 554)
    calls,          \* the on_message invocations, in order
    disconnects,    \* how many times on_disconnect was invoked
    tdata,          \* threads plugin: per sender thread, count and position
    active,         \* threads plugin: data->active
    stopping,       \* threads plugin: data->stopping
    request,        \* r: handler, method_number and headers_in
    headers_out,    \* r->headers_out
    input_filters,  \* r->input_filters, the names of the chain in order
    protocols,      \* state->protocols (<<>> for NULL: never empty, line 365)
    keepalive,      \* r->connection->keepalive
    result,         \* what the request handler returned, "none" before
    chosen,         \* the arguments of the plugin's protocol_set calls
    response_headers, \* the headers ap_send_interim_response has sent
    probe,          \* a frame header on its own: what wrote it and what read it
    sink            \* "faulty" when ap_fwrite and ap_fflush can fail

\* the request, the response under construction and the connection
hs == <<request, headers_out, input_filters, protocols, keepalive, result,
        chosen, response_headers, probe, overflow, sink>>

vars == <<plugin, pc, plugin_private, response, obb, closing, mutex, loc,
          send, wire, pending, sent, ndispatched, calls, disconnects,
          tdata, active, stopping, hs>>

\* the connection thread and the sender threads of the threads plugin
\* (num_threads = 10 in threads.c; thread t has tdata->index = t - 1)
Conn == 0
Threads == {1, 2}
AllThreads == {Conn} \cup Threads
Free == -1

(***************************************************************************)
(* The request and the handshake: mod_websocket_method_handler, lines      *)
(* 626-697, and the callbacks of the server structure a plugin uses in     *)
(* on_connect.  Strings whose content the code looks at are sequences of   *)
(* character codes.                                                        *)
(***************************************************************************)

\* the strings of the model, as the character codes they are made of
Str(s) ==
    CASE s = "WebSocket" -> <<87, 101, 98, 83, 111, 99, 107, 101, 116>>
      [] s = "websocket" -> <<119, 101, 98, 115, 111, 99, 107, 101, 116>>
      [] s = "h2c" -> <<104, 50, 99>>
      [] s = "Upgrade" -> <<85, 112, 103, 114, 97, 100, 101>>
      [] s = "upgrade" -> <<117, 112, 103, 114, 97, 100, 101>>
      [] s = "keep-alive, Upgrade" ->
           <<107, 101, 101, 112, 45, 97, 108, 105, 118, 101,
             44, 32, 85, 112, 103, 114, 97, 100, 101>>
      [] s = "keep-alive" ->
           <<107, 101, 101, 112, 45, 97, 108, 105, 118, 101>>
      [] s = "7" -> <<55>>
      [] s = "13" -> <<49, 51>>
      [] s = "a, b , c" -> <<97, 44, 32, 98, 32, 44, 32, 99>>
      [] s = " ," -> <<32, 44>>
      [] s = "1" -> <<49>>
      [] s = "3" -> <<51>>
      [] s = "true" -> <<116, 114, 117, 101>>
      [] s = "h" -> <<104>>
      [] s = "a2V5" -> <<97, 50, 86, 53>>
      [] s = "o" -> <<111>>
      [] s = "text/html" -> <<116, 101, 120, 116, 47, 104, 116, 109, 108>>

\* the null pointer where a string is expected (no string holds a -1)
NULL == <<-1>>

\* state.mutex before apr_thread_mutex_create and after
\* apr_thread_mutex_destroy
NoMutex == -2

\* the mutex held twice by t, where the build's mutex is recursive
Twice(t) == t + 10

\* tolower of one character
tolower(c) == IF c >= 65 /\ c <= 90 THEN c + 32 ELSE c

\* strcasecmp(a, b): 0 exactly when a and b are equal up to case
strcasecmp(a, b) ==
    IF [i \in 1..Len(a) |-> tolower(a[i])] = [i \in 1..Len(b) |-> tolower(b[i])]
    THEN 0 ELSE 1

\* apr_table_get: the value under key, NULL when the table has none
apr_table_get(t, key) == IF key \in DOMAIN t THEN t[key] ELSE NULL

\* apr_table_setn: the value under key is replaced or added
apr_table_setn(t, key, value) ==
    [k \in DOMAIN t \cup {key} |-> IF k = key THEN value ELSE t[k]]

\* apr_table_clear
EmptyTable == [k \in {} |-> <<>>]

\* the headers a request may carry; the requests of the model take the
\* cases of each: absent, as the handshake wants it, and otherwise
MakeRequest(handler, method, upgrade, connection, host, key, origin, ver, protocol, refuse, choose) ==
    [handler |-> handler, method_number |-> method,
     headers_in |->
        LET all == [k \in {"Upgrade", "Connection", "Host",
                           "Sec-WebSocket-Key", "Sec-WebSocket-Origin",
                           "Sec-WebSocket-Version", "Sec-WebSocket-Protocol",
                           "X-Refuse-Connection", "X-Choose-Subprotocol"} |->
                       CASE k = "Upgrade" -> upgrade
                         [] k = "Connection" -> connection
                         [] k = "Host" -> host
                         [] k = "Sec-WebSocket-Key" -> key
                         [] k = "Sec-WebSocket-Origin" -> origin
                         [] k = "Sec-WebSocket-Version" -> ver
                         [] k = "Sec-WebSocket-Protocol" -> protocol
                         [] k = "X-Refuse-Connection" -> refuse
                         [] k = "X-Choose-Subprotocol" -> choose]
        IN  [k \in {j \in DOMAIN all : all[j] # NULL} |-> all[k]]]

Requests ==
    { MakeRequest(handler, method, upgrade, connection, host, key, origin,
                  ver, protocol, refuse, choose) :
        handler \in {"websocket-handler", "other"},
        method \in {"M_GET", "M_POST"},
        upgrade \in {NULL, Str("WebSocket"), Str("h2c")},
        connection \in {NULL, Str("Upgrade"), Str("upgrade"),
                        Str("keep-alive, Upgrade"),
                        Str("keep-alive")},
        host \in {NULL, Str("h")},
        key \in {NULL, Str("a2V5")},
        origin \in {NULL, Str("o")},
        ver \in {NULL, Str("7"), Str("13")},
        protocol \in {NULL, Str(" ,"), Str("a, b , c")},
        refuse \in {NULL, Str("1")},
        choose \in {NULL, Str("1"), Str("3"), Str("h2c")} }

\* the request of the connections whose frames are looked at: a handshake
\* as the code wants it
PlainRequest ==
    MakeRequest("websocket-handler", "M_GET", Str("websocket"), Str("Upgrade"),
                Str("h"), Str("a2V5"), Str("o"), Str("7"), NULL, NULL, NULL)

\* the same, with or without the header debug_v0 refuses on
FramingRequests ==
    { PlainRequest,
      MakeRequest("websocket-handler", "M_GET", Str("websocket"),
                  Str("Upgrade"), Str("h"), Str("a2V5"), Str("o"), Str("7"),
                  NULL, Str("1"), NULL) }

\* what the host hands to the handler: the response headers it has set so
\* far and its input filter chain
HostHeaders == [k \in {"Content-Type"} |-> Str("text/html")]
HostFilters == <<"http_in", "core_in">>

\* lines 628-629 (r->parsed_uri.path and r->headers_in are not NULL)
IsWebSocketGet(r) ==
    r.handler = "websocket-handler" /\ r.method_number = "M_GET"

\* lines 630-636
UpgradeRequested(r) ==
    LET upgrade == apr_table_get(r.headers_in, "Upgrade")
        connection == apr_table_get(r.headers_in, "Connection")
    IN  /\ upgrade # NULL
        /\ connection # NULL
        /\ strcasecmp(upgrade, Str("WebSocket")) = 0
        /\ strcasecmp(connection, Str("Upgrade")) = 0

\* a faulty variant of the test: the version is not looked at
HandshakeHeadersAnyVersion(r) ==
    /\ apr_table_get(r.headers_in, "Host") # NULL
    /\ apr_table_get(r.headers_in, "Sec-WebSocket-Key") # NULL
    /\ apr_table_get(r.headers_in, "Sec-WebSocket-Origin") # NULL

\* lines 639-648
HandshakeHeaders(r) ==
    LET host == apr_table_get(r.headers_in, "Host")
        sec_websocket_key == apr_table_get(r.headers_in, "Sec-WebSocket-Key")
        sec_websocket_origin ==
            apr_table_get(r.headers_in, "Sec-WebSocket-Origin")
        sec_websocket_version ==
            apr_table_get(r.headers_in, "Sec-WebSocket-Version")
    IN  /\ host # NULL
        /\ sec_websocket_key # NULL
        /\ sec_websocket_origin # NULL
        /\ sec_websocket_version # NULL
        /\ strcasecmp(sec_websocket_version, Str("7")) = 0

\* lines 669-676: the first filter named http_in is removed
RECURSIVE RemoveHttpIn(_)
RemoveHttpIn(filters) ==
    IF filters = <<>> THEN <<>>
    ELSE IF Head(filters) = "http_in" THEN Tail(filters)
    ELSE <<Head(filters)>> \o RemoveHttpIn(Tail(filters))

(***************************************************************************)
(* The accept key: mod_websocket_handshake, lines 330-347.  The digest is  *)
(* the SHA-1 of the library (apr_sha1_init, apr_sha1_update,               *)
(* apr_sha1_final) and the encoding its base64                             *)
(* (apr_base64_encode_binary), computed on bytes.                          *)
(***************************************************************************)
\* a 32-bit word of the digest is kept as its two halves of 16 bits, high
\* half first
Half == 65536
WordXor(a, b) == <<BitXor(a[1], b[1], 16), BitXor(a[2], b[2], 16)>>
WordAnd(a, b) == <<BitAnd(a[1], b[1], 16), BitAnd(a[2], b[2], 16)>>
WordNot(a) == <<Half - 1 - a[1], Half - 1 - a[2]>>
\* a + b modulo 2^32
WordAdd(a, b) ==
    LET lo == a[2] + b[2]
    IN  <<(a[1] + b[1] + (lo \div Half)) % Half, lo % Half>>

RECURSIVE Pow2(_)
Pow2(n) == IF n = 0 THEN 1 ELSE 2 * Pow2(n - 1)

\* a rotated left by n bits, 0 < n < 16
RotateLeft(a, n) ==
    <<((a[1] * Pow2(n)) % Half) + (a[2] \div Pow2(16 - n)),
      ((a[2] * Pow2(n)) % Half) + (a[1] \div Pow2(16 - n))>>
\* a rotated left by 30 bits: the halves change places, then 14 bits
RotateLeft30(a) == RotateLeft(<<a[2], a[1]>>, 14)

\* the word made of four bytes, the first the most significant
WordOf(b, i) == <<b[i] * 256 + b[i + 1], b[i + 2] * 256 + b[i + 3]>>
\* the four bytes of a word
BytesOf(w) == <<w[1] \div 256, w[1] % 256, w[2] \div 256, w[2] % 256>>

RECURSIVE Schedule(_)
\* the 80 words of a block's schedule, from its first 16
Schedule(w) ==
    IF Len(w) = 80 THEN w
    ELSE LET t == Len(w) + 1
         IN  Schedule(Append(w,
                 RotateLeft(WordXor(WordXor(w[t - 3], w[t - 8]),
                                    WordXor(w[t - 14], w[t - 16])), 1)))

\* the function and the constant of round t, 0 <= t < 80
RoundF(t, b, c, d) ==
    IF t < 20 THEN WordXor(WordAnd(b, c), WordAnd(WordNot(b), d))
    ELSE IF t < 40 THEN WordXor(WordXor(b, c), d)
    ELSE IF t < 60 THEN WordXor(WordXor(WordAnd(b, c), WordAnd(b, d)),
                                WordAnd(c, d))
    ELSE WordXor(WordXor(b, c), d)
RoundK(t) ==
    IF t < 20 THEN <<23170, 31129>>
    ELSE IF t < 40 THEN <<28377, 60321>>
    ELSE IF t < 60 THEN <<36635, 48348>>
    ELSE <<51810, 49622>>

RECURSIVE Rounds(_, _, _)
\* rounds t..79 on the working words s = <<a, b, c, d, e>>
Rounds(t, s, w) ==
    IF t = 80 \/ Len(s) # 5 THEN s
    ELSE LET temp == WordAdd(WordAdd(WordAdd(RotateLeft(s[1], 5),
                                             RoundF(t, s[2], s[3], s[4])),
                                     WordAdd(s[5], w[t + 1])),
                             RoundK(t))
         IN  Rounds(t + 1, <<temp, s[1], RotateLeft30(s[2]), s[3], s[4]>>, w)

\* one block of 64 bytes is taken into the digest
Transform(digest, block) ==
    LET w == Schedule([i \in 1..16 |-> WordOf(block, 4 * i - 3)])
        s == Rounds(0, digest, w)
    IN  [i \in 1..5 |-> WordAdd(digest[i], s[i])]

\* apr_sha1_init: the initial digest, nothing buffered, nothing counted
apr_sha1_init ==
    [digest |-> <<<<26437, 8961>>, <<61389, 43913>>, <<39098, 56574>>,
                  <<4146, 21622>>, <<50130, 57840>>>>,
     buffer |-> <<>>, count |-> 0]

RECURSIVE TakeBlocks(_)
\* every whole block of the buffer is taken into the digest
TakeBlocks(context) ==
    IF Len(context.buffer) < 64 THEN context
    ELSE TakeBlocks([context EXCEPT
             !.digest = Transform(@, SubSeq(context.buffer, 1, 64)),
             !.buffer = SubSeq(@, 65, Len(@))])

\* apr_sha1_update: the bytes of input follow those taken before
apr_sha1_update(context, input) ==
    TakeBlocks([context EXCEPT !.buffer = @ \o input,
                               !.count = @ + Len(input)])

\* apr_sha1_final: a byte 0x80, zero bytes up to 56 modulo 64 and the count
\* of bits as 8 bytes are appended, and the digest is given as 20 bytes
apr_sha1_final(context) ==
    LET zeros == (119 - (context.count % 64)) % 64
        bits == context.count * 8
        pad == <<128>> \o [i \in 1..zeros |-> 0]
               \o <<0, 0, 0, 0>> \o BytesOf(<<bits \div Half, bits % Half>>)
        last == TakeBlocks([context EXCEPT !.buffer = @ \o pad])
    IN  BytesOf(last.digest[1]) \o BytesOf(last.digest[2])
        \o BytesOf(last.digest[3]) \o BytesOf(last.digest[4])
        \o BytesOf(last.digest[5])

\* the character of a value of 6 bits in the alphabet A-Z a-z 0-9 + /
Base64Char(v) ==
    IF v < 26 THEN 65 + v
    ELSE IF v < 52 THEN 97 + (v - 26)
    ELSE IF v < 62 THEN 48 + (v - 52)
    ELSE IF v = 62 THEN 43 ELSE 47

RECURSIVE apr_base64_encode_binary(_)
\* three bytes give four characters; one or two bytes left at the end give
\* two or three characters and the padding "="
apr_base64_encode_binary(b) ==
    IF Len(b) = 0 THEN <<>>
    ELSE IF Len(b) = 1
    THEN <<Base64Char(b[1] \div 4), Base64Char((b[1] % 4) * 16), 61, 61>>
    ELSE IF Len(b) = 2
    THEN <<Base64Char(b[1] \div 4),
           Base64Char((b[1] % 4) * 16 + (b[2] \div 16)),
           Base64Char((b[2] % 16) * 4), 61>>
    ELSE <<Base64Char(b[1] \div 4),
           Base64Char((b[1] % 4) * 16 + (b[2] \div 16)),
           Base64Char((b[2] % 16) * 4 + (b[3] \div 64)),
           Base64Char(b[3] % 64)>>
         \o apr_base64_encode_binary(SubSeq(b, 4, Len(b)))

WEBSOCKET_GUID ==
    <<50, 53, 56, 69, 65, 70, 65, 53, 45, 69, 57, 49, 52, 45, 52, 55, 68, 65,
      45, 57, 53, 67, 65, 45, 67, 53, 65, 66, 48, 68, 67, 56, 53, 66, 49, 49>>

\* the key of the example of the protocol, "dGhlIHNhbXBsZSBub25jZQ=="
SampleKey ==
    <<100, 71, 104, 108, 73, 72, 78, 104, 98, 88, 66, 115, 90, 83, 66, 117,
      98, 50, 53, 106, 90, 81, 61, 61>>

\* a faulty variant: the GUID is not appended to the key
AcceptKeyWithoutGuid(sec_websocket_key) ==
    apr_base64_encode_binary(
        apr_sha1_final(apr_sha1_update(apr_sha1_init, sec_websocket_key)))

\* lines 337-342: base64 of the SHA-1 digest of the key followed by the
\* GUID
AcceptKey(sec_websocket_key) ==
    apr_base64_encode_binary(
        apr_sha1_final(
            apr_sha1_update(apr_sha1_update(apr_sha1_init, sec_websocket_key),
                            WEBSOCKET_GUID)))

\* apr_strtok called until it returns NULL (lines 358-363): the maximal
\* runs of characters of str that are no separators, in order; cur is the
\* run being read
RECURSIVE Tokens(_, _, _)
Tokens(str, separators, cur) ==
    IF str = <<>>
    THEN IF cur = <<>> THEN <<>> ELSE <<cur>>
    ELSE IF Head(str) \in separators
    THEN (IF cur = <<>> THEN <<>> ELSE <<cur>>)
         \o Tokens(Tail(str), separators, <<>>)
    ELSE Tokens(Tail(str), separators, Append(cur, Head(str)))

\* mod_websocket_parse_protocol, lines 354-368: the separators are ", \t";
\* state->protocols is set only when there is a token
mod_websocket_parse_protocol(sec_websocket_protocol) ==
    Tokens(sec_websocket_protocol, {44, 32, 9}, <<>>)

\* lines 199-207
mod_websocket_protocol_count(p) == IF p # <<>> THEN Len(p) ELSE 0

\* lines 209-215
mod_websocket_protocol_index(p, index) ==
    IF index >= 0 /\ index < mod_websocket_protocol_count(p)
    THEN p[index + 1]
    ELSE NULL

\* lines 217-226
mod_websocket_protocol_set(h, protocol) ==
    IF protocol # NULL
    THEN apr_table_setn(h, "Sec-WebSocket-Protocol", protocol)
    ELSE h

\* protocol_set called with each of names in turn
RECURSIVE ProtocolSetAll(_, _)
ProtocolSetAll(h, names) ==
    IF names = <<>> THEN h
    ELSE ProtocolSetAll(mod_websocket_protocol_set(h, Head(names)),
                        Tail(names))

\* lines 661 and 686-688: the offered names
OfferedProtocols(r) ==
    LET sec_websocket_protocol ==
            apr_table_get(r.headers_in, "Sec-WebSocket-Protocol")
    IN  IF sec_websocket_protocol # NULL
        THEN mod_websocket_parse_protocol(sec_websocket_protocol)
        ELSE <<>>

\* a faulty variant: no default is chosen
HandshakeHeadersOutNoDefault(r) ==
    apr_table_setn(
        apr_table_setn(
            apr_table_setn(EmptyTable, "Upgrade", Str("websocket")),
            "Connection", Str("Upgrade")),
        "Sec-WebSocket-Accept",
        AcceptKey(apr_table_get(r.headers_in, "Sec-WebSocket-Key")))

\* lines 678-694: the response headers of the handshake, with the first
\* offered protocol as the default
HandshakeHeadersOut(r) ==
    LET h == apr_table_setn(
                 apr_table_setn(
                     apr_table_setn(EmptyTable, "Upgrade", Str("websocket")),
                     "Connection", Str("Upgrade")),
                 "Sec-WebSocket-Accept",
                 AcceptKey(apr_table_get(r.headers_in, "Sec-WebSocket-Key")))
        p == OfferedProtocols(r)
    IN  IF mod_websocket_protocol_count(p) > 0
        THEN mod_websocket_protocol_set(h, mod_websocket_protocol_index(p, 0))
        ELSE h

\* header, payload and flush: what the ap_fwrite of line 282, the ap_fwrite
\* of line 284 and the ap_fflush of line 288 of the call returned, "none"
\* while they have not run
IdleSend ==
    [at |-> "idle", site |-> "none", type |-> MESSAGE_TYPE_INVALID,
     buffer |-> <<>>, written |-> 0, call |-> 0,
     header |-> "none", payload |-> "none", flush |-> "none"]

\* no header is looked at on its own
NoProbe == [at |-> "none"]

\* the request handler is entered with request r for a location bound to
\* plugin p; lines 654 and 662: state = {r, NULL, NULL, NULL, 0} and
\* plugin_private = NULL
InitConnection(p, r) ==
    /\ plugin = p
    /\ pc = "request"
    /\ plugin_private = "NULL"
    /\ response = "none"
    /\ obb = "NULL"
    /\ closing = 0
    /\ mutex = NoMutex
    /\ request = r
    /\ headers_out = HostHeaders
    /\ input_filters = HostFilters
    /\ protocols = <<>>
    /\ keepalive = "AP_CONN_UNKNOWN"
    /\ result = "none"
    /\ chosen = <<>>
    /\ response_headers = EmptyTable
    /\ loc = InitLocals
    /\ send = [t \in AllThreads |-> IdleSend]
    /\ wire = <<>>
    /\ pending = <<>>
    /\ sent = <<>>
    /\ ndispatched = 0
    /\ calls = <<>>
    /\ disconnects = 0
    /\ tdata = [t \in Threads |-> [count |-> 0, at |-> "none"]]
    /\ active = 0
    /\ stopping = 0

\* no extended length of the frames of these specifications is long enough
\* for its accumulation to overflow: the outcome of an overflow is never
\* looked at
InitWith(p, r) ==
    /\ InitConnection(p, r)
    /\ probe = NoProbe
    /\ overflow = "wraps"
    /\ sink = "sound"

(***************************************************************************)
(* mod_websocket_plugin_send (lines 227-295), one call per thread at a     *)
(* time.  A call is entered by the action of the caller that makes it      *)
(* (Call) and has returned when its record is back at "idle".              *)
(***************************************************************************)

\* lines 227-230: entry; payload_length is the length of the buffer, 0 for
\* a NULL buffer
Call(t, site, type, buffer) ==
    [send EXCEPT ![t] = [at |-> "lock", site |-> site, type |-> type,
                         buffer |-> buffer, written |-> 0,
                         call |-> @.call + 1, header |-> "none",
                         payload |-> "none", flush |-> "none"]]

\* what a write to the output filters or their flush can return
Outcomes == IF sink = "faulty" THEN {"ok", "failed"} ELSE {"ok"}

Returned(t) == send[t].at = "idle"

\* a faulty variant of the lock: it never waits
MutexAvailableAlways == TRUE

\* apr_thread_mutex_lock returns once the mutex is free
MutexAvailable == mutex = Free

\* a faulty variant of the test: state->closing is not looked at
MaySendIgnoreClosing == obb # "NULL"

\* a faulty variant of the test: state->obb is not looked at
MaySendIgnoreSink == closing = 0

\* line 239: (state->r != NULL) && (state->obb != NULL) && !state->closing
MaySend == obb # "NULL" /\ closing = 0

Chunk(t, part, bytes) ==
    [by |-> t, site |-> send[t].site, call |-> send[t].call,
     part |-> part, bytes |-> bytes]

\* apr_thread_mutex_unlock by t: a mutex held twice is still held once
Unlocked(t) == IF mutex = Twice(t) THEN t ELSE Free

\* line 237
SendLock(t) ==
    /\ send[t].at = "lock"
    /\ MutexAvailable
    /\ mutex' = t
    /\ send' = [send EXCEPT ![t].at = "locked"]
    /\ UNCHANGED <<plugin, pc, plugin_private, response, obb, closing, loc,
                   wire, pending, sent, ndispatched, calls, disconnects,
                   tdata, active, stopping,
                   hs>>

\* line 237 when the caller holds the mutex already.  The mutex is created
\* with APR_THREAD_MUTEX_DEFAULT (line 696): locking it again is undefined
\* for the default mutex of the threads library.  The caller blocks for
\* ever, which is this step never taken, or, where the default mutex is
\* recursive, holds it twice.
SendRelock(t) ==
    /\ send[t].at = "lock"
    /\ mutex = t
    /\ mutex' = Twice(t)
    /\ send' = [send EXCEPT ![t].at = "locked"]
    /\ UNCHANGED <<plugin, pc, plugin_private, response, obb, closing, loc,
                   wire, pending, sent, ndispatched, calls, disconnects,
                   tdata, active, stopping, hs>>

\* lines 239-282: the test of the session, the opcode, the header write,
\* whose result is not looked at; when the test fails, lines 292-294:
\* unlock and return 0.  A write that fails is taken to put nothing into
\* the output.
SendHeader(t) ==
    /\ send[t].at = "locked"
    /\ IF MaySend
       THEN \E rv \in Outcomes :
            /\ closing' = IF SetsClosing(send[t].type) THEN 1 ELSE closing
            /\ wire' = IF rv = "ok"
                       THEN Append(wire,
                              Chunk(t, "header",
                                    SendHeaderBytes(SendOpcode(send[t].type),
                                                    Len(send[t].buffer))))
                       ELSE wire
            /\ send' = [send EXCEPT ![t].at =
                           IF Len(send[t].buffer) > 0
                           THEN "payload" ELSE "flush",
                                    ![t].header = rv]
            /\ UNCHANGED mutex
       ELSE /\ mutex' = Unlocked(t)
            /\ send' = [send EXCEPT ![t].at = "idle", ![t].site = "none",
                                    ![t].type = MESSAGE_TYPE_INVALID,
                                    ![t].buffer = <<>>]
            /\ UNCHANGED <<closing, wire>>
    /\ UNCHANGED <<plugin, pc, plugin_private, response, obb, loc,
                   pending, sent, ndispatched, calls, disconnects,
                   tdata, active, stopping,
                   hs>>

\* lines 283-287: written = buffer_size when the payload write succeeds
SendPayload(t) ==
    /\ send[t].at = "payload"
    /\ \E rv \in Outcomes :
          /\ wire' = IF rv = "ok"
                     THEN Append(wire, Chunk(t, "payload", send[t].buffer))
                     ELSE wire
          /\ send' = [send EXCEPT ![t].at = "flush",
                                  ![t].written = IF rv = "ok"
                                                 THEN Len(send[t].buffer)
                                                 ELSE 0,
                                  ![t].payload = rv]
    /\ UNCHANGED <<plugin, pc, plugin_private, response, obb, closing, mutex,
                   loc, pending, sent, ndispatched, calls, disconnects,
                   tdata, active, stopping,
                   hs>>

\* lines 288-294: written = 0 when ap_fflush fails; unlock and return
\* written
SendFlush(t) ==
    /\ send[t].at = "flush"
    /\ mutex' = Unlocked(t)
    /\ \E rv \in Outcomes :
          send' = [send EXCEPT ![t].at = "idle", ![t].site = "none",
                               ![t].type = MESSAGE_TYPE_INVALID,
                               ![t].buffer = <<>>,
                               ![t].written = IF rv = "ok" THEN @ ELSE 0,
                               ![t].flush = rv]
    /\ UNCHANGED <<plugin, pc, plugin_private, response, obb, closing, loc,
                   wire, pending, sent, ndispatched, calls, disconnects,
                   tdata, active, stopping,
                   hs>>

(***************************************************************************)
(* The client.                                                             *)
(***************************************************************************)

\* the client sends one more frame, while the server waits for input with
\* everything sent before already read
ClientSend(F, max) ==
    /\ pc = "read"
    /\ pending = <<>>
    /\ Len(sent) < max
    /\ \E f \in F :
          /\ pending' = ClientBytes(f)
          /\ sent' = Append(sent, f)
    /\ UNCHANGED <<plugin, pc, plugin_private, response, obb, closing, mutex,
                   loc, send, wire, ndispatched, calls, disconnects,
                   tdata, active, stopping,
                   hs>>

(***************************************************************************)
(* The connection thread: mod_websocket_method_handler from the call of    *)
(* on_connect (line 700) on, and mod_websocket_data_framing.               *)
(***************************************************************************)

\* lines 628-648 (conf and conf->plugin are not NULL, line 653)
Accepts(r) ==
    IsWebSocketGet(r) /\ UpgradeRequested(r) /\ HandshakeHeaders(r)

\* lines 626-697 and 733: the tests of the request; on a request that
\* passes them the input filter is removed, the response headers are set,
\* the offered protocols are parsed and the mutex is created and locked;
\* on any other the handler returns DECLINED
MethodHandler ==
    /\ pc = "request"
    /\ IF Accepts(request)
       THEN /\ input_filters' = RemoveHttpIn(input_filters)
            /\ headers_out' = HandshakeHeadersOut(request)
            /\ protocols' = OfferedProtocols(request)
            /\ mutex' = Conn
            /\ pc' = "on_connect"
            /\ UNCHANGED result
       ELSE /\ result' = "DECLINED"
            /\ pc' = "done"
            /\ UNCHANGED <<input_filters, headers_out, protocols, mutex>>
    /\ UNCHANGED <<plugin, plugin_private, response, obb, closing, loc, send,
                   wire, pending, sent, ndispatched, calls, disconnects,
                   tdata, active, stopping, request, keepalive, chosen,
                   response_headers,
                   probe, overflow, sink>>

\* threads.c on_connect, lines 83 and 96-110: every sender thread is created
\* with count at its start value
StartedThreads ==
    [t \in Threads |-> [count |-> MaxCount, at |-> "loop"]]

\* strtol(str, &end, 10) leaves *end at '\0': str is a run of digits (the
\* requests of the model carry no sign and no blank)
IsDigits(str) == str # <<>> /\ \A i \in 1..Len(str) : str[i] \in 48..57

RECURSIVE DecimalValue(_)
DecimalValue(str) ==
    IF str = <<>> THEN 0
    ELSE DecimalValue(SubSeq(str, 1, Len(str) - 1)) * 10
         + (str[Len(str)] - 48)

\* debug_v0.c choose_subprotocol, lines 140-164: the arguments of its
\* protocol_set calls, none or one
choose_subprotocol(r, p) ==
    LET index_str == apr_table_get(r.headers_in, "X-Choose-Subprotocol")
    IN  IF index_str = NULL \/ index_str = <<>> THEN <<>>
        ELSE IF ~IsDigits(index_str) THEN <<>>
        ELSE IF DecimalValue(index_str) >= mod_websocket_protocol_count(p)
        THEN <<>>
        ELSE <<mod_websocket_protocol_index(p, DecimalValue(index_str))>>

\* a plugin whose on_connect calls protocol_set up to MaxChoices times,
\* each time with the result of protocol_index for an index of its choice,
\* in range or one beyond: the arguments of these calls
ChooserCalls(p) ==
    { [i \in 1..n |-> mod_websocket_protocol_index(p, script[i])] :
        n \in 0..MaxChoices,
        script \in [1..MaxChoices -> 0..mod_websocket_protocol_count(p)] }

\* the plugins that supply on_connect (debug_v0.c line 40, threads.c line
\* 40); "bare" is a plugin with on_message and on_disconnect only
HasOnConnect == plugin # "bare"

\* lines 703-710: status 101 and the interim response, which carries the
\* response headers as they are now
SwitchProtocols(h) ==
    /\ response' = "101"
    /\ response_headers' = h
    /\ pc' = "framing"

\* lines 699-701 with on_connect returning NULL, then lines 726-728: the
\* mutex is destroyed and the handler returns OK
Refused ==
    /\ pc' = "done"
    /\ mutex' = NoMutex
    /\ result' = "OK"
    /\ UNCHANGED <<plugin_private, response, response_headers, headers_out,
                   chosen, tdata, active, send>>

\* lines 699-710: on_connect, then status 101 and the interim response.
\* debug_v0 (lines 50-63) refuses when the request carries
\* X-Refuse-Connection; otherwise it chooses a subprotocol, sets
\* X-Debug-Header and returns (void *) 1.  threads returns its plugin_data.
\* "chooser" calls protocol_set, "greeter" calls send; without on_connect
\* plugin_private keeps its initial value.
OnConnect ==
    /\ pc = "on_connect"
    /\ CASE ~HasOnConnect ->
              /\ SwitchProtocols(headers_out)
              /\ UNCHANGED <<plugin_private, headers_out, chosen, tdata,
                             active, send, mutex, result>>
         [] plugin = "debug_v0" ->
              IF apr_table_get(request.headers_in, "X-Refuse-Connection")
                   # NULL
              THEN Refused
              ELSE /\ chosen' = choose_subprotocol(request, protocols)
                   /\ headers_out' =
                          apr_table_setn(ProtocolSetAll(headers_out, chosen'),
                                         "X-Debug-Header", Str("true"))
                   /\ plugin_private' = "1"
                   /\ SwitchProtocols(headers_out')
                   /\ UNCHANGED <<tdata, active, send, mutex, result>>
         [] plugin = "threads" ->
              /\ plugin_private' = "data"
              /\ tdata' = StartedThreads
              /\ active' = Cardinality(Threads)
              /\ SwitchProtocols(headers_out)
              /\ UNCHANGED <<headers_out, chosen, send, mutex, result>>
         [] plugin = "chooser" ->
              \E names \in ChooserCalls(protocols) :
                  /\ chosen' = names
                  /\ headers_out' = ProtocolSetAll(headers_out, names)
                  /\ plugin_private' = "1"
                  /\ SwitchProtocols(headers_out')
                  /\ UNCHANGED <<tdata, active, send, mutex, result>>
         [] plugin = "greeter" ->
              /\ send' = Call(Conn, "on_connect", MESSAGE_TYPE_TEXT, hi)
              /\ pc' = "connect_send"
              /\ UNCHANGED <<plugin_private, response, response_headers,
                             headers_out, chosen, tdata, active, mutex,
                             result>>
    /\ UNCHANGED <<plugin, obb, closing, loc, wire, pending, sent,
                   ndispatched, calls, disconnects, stopping, request,
                   input_filters, protocols, keepalive,
                   probe, overflow, sink>>

\* the send of "greeter" has returned and its on_connect returns a
\* non-null value; lines 703-710
ConnectSendReturn ==
    /\ pc = "connect_send"
    /\ Returned(Conn)
    /\ plugin_private' = "1"
    /\ SwitchProtocols(headers_out)
    /\ UNCHANGED <<plugin, obb, closing, mutex, loc, send, wire, pending,
                   sent, ndispatched, calls, disconnects, tdata, active,
                   stopping, request, headers_out, input_filters, protocols,
                   keepalive, result, chosen,
                   probe, overflow, sink>>

\* lines 385-404: the locals, state->obb = obb, unlock
\* variant: the brigade is attached and the mutex kept
FramingEnterKeepsMutex ==
    /\ pc = "framing"
    /\ loc' = InitLocals
    /\ obb' = "brigade"
    /\ pc' = "read"
    /\ UNCHANGED <<plugin, plugin_private, response, closing, send, wire,
                   pending, sent, ndispatched, calls, disconnects,
                   tdata, active, stopping, mutex,
                   hs>>

FramingEnter ==
    /\ pc = "framing"
    /\ loc' = InitLocals
    /\ obb' = "brigade"
    /\ mutex' = Free
    /\ pc' = "read"
    /\ UNCHANGED <<plugin, plugin_private, response, closing, send, wire,
                   pending, sent, ndispatched, calls, disconnects,
                   tdata, active, stopping,
                   hs>>

\* a block that has been consumed is dead: it is dropped
DropBlock(s) ==
    IF s.block_offset >= block_size(s)
    THEN [s EXCEPT !.block = <<>>, !.block_offset = 0]
    ELSE s

\* where the loop goes after a pass or a dispatch: the dispatch of a
\* complete frame (line 554), the inner loop condition (line 410), the outer
\* loop condition (lines 406-407)
LoopPc(s) ==
    IF s.trapped THEN "trapped"
    ELSE IF s.complete THEN "dispatch"
    ELSE IF s.block_offset < block_size(s) THEN "switch"
    ELSE IF s.framing_state # DATA_FRAMING_CLOSE THEN "read"
    ELSE "exit"

\* lines 406-410 and the first pass over the block: mod_websocket_read_block
\* returns the next n bytes, n between 1 and the size of the block buffer
ReadBlock(whole) ==
    /\ pc = "read"
    /\ pending # <<>>
    /\ \E n \in (IF whole THEN {Min(Len(pending), BLOCK_DATA_SIZE)}
                 ELSE 1..Min(Len(pending), BLOCK_DATA_SIZE)) :
          LET s == SwitchPass([loc EXCEPT !.block = SubSeq(pending, 1, n),
                                          !.block_offset = 0])
          IN  /\ loc' = DropBlock(s)
              /\ pc' = LoopPc(s)
              /\ pending' = SubSeq(pending, n + 1, Len(pending))
    /\ UNCHANGED <<plugin, plugin_private, response, obb, closing, mutex,
                   send, wire, sent, ndispatched, calls, disconnects,
                   tdata, active, stopping,
                   hs>>

\* line 407: mod_websocket_read_block returns 0 (the peer closed the
\* transport, or the read failed)
ReadZero ==
    /\ pc = "read"
    /\ pc' = "exit"
    /\ UNCHANGED <<plugin, plugin_private, response, obb, closing, mutex,
                   loc, send, wire, pending, sent, ndispatched, calls,
                   disconnects, tdata, active, stopping,
                   hs>>

\* line 410: the next pass over the same block
SwitchNext ==
    /\ pc = "switch"
    /\ LET s == SwitchPass(loc)
       IN  /\ loc' = DropBlock(s)
           /\ pc' = LoopPc(s)
    /\ UNCHANGED <<plugin, plugin_private, response, obb, closing, mutex,
                   send, wire, pending, sent, ndispatched, calls,
                   disconnects, tdata, active, stopping,
                   hs>>

\* lines 557-576: message_type of the opcode
MessageType(opcode) ==
    CASE opcode = OPCODE_TEXT -> MESSAGE_TYPE_TEXT
      [] opcode = OPCODE_BINARY -> MESSAGE_TYPE_BINARY
      [] OTHER -> MESSAGE_TYPE_INVALID

\* a faulty variant: only a CLOSE ends the loop, the default case of the
\* switch does nothing
ClosesLoopCloseOnly(opcode) == opcode = OPCODE_CLOSE

\* lines 564-566 and 573-575: the opcodes that end the loop
ClosesLoop(opcode) ==
    opcode \notin {OPCODE_TEXT, OPCODE_BINARY, OPCODE_PING, OPCODE_PONG}

\* a faulty variant of the test: fin is not looked at
DeliversAlways(s) == MessageType(s.opcode) # MESSAGE_TYPE_INVALID

\* line 577
Delivers(s) == s.fin # 0 /\ MessageType(s.opcode) # MESSAGE_TYPE_INVALID

\* a faulty variant of the reset: a final frame, control frames included,
\* resets the message buffer too
AfterDispatchSharedFrame(s) ==
    LET s1 == IF s.framing_state # DATA_FRAMING_CLOSE
              THEN IF s.fin # 0
                   THEN [s EXCEPT !.framing_state = DATA_FRAMING_START,
                                  !.control_frame.application_data = <<>>,
                                  !.control_frame.allocated = 0,
                                  !.message_frame.application_data = <<>>,
                                  !.message_frame.allocated = 0,
                                  !.message_frame.application_data_offset = 0,
                                  !.application_data_offset = 0]
                   ELSE [s EXCEPT !.framing_state = DATA_FRAMING_START]
              ELSE s
    IN  [s1 EXCEPT ![s.frame].application_data_offset =
                       s1.application_data_offset,
                   !.application_data_offset = 0,
                   !.complete = FALSE]

\* lines 581-593
AfterDispatch(s) ==
    LET s1 == IF s.framing_state # DATA_FRAMING_CLOSE
              THEN IF s.fin # 0
                   THEN [s EXCEPT !.framing_state = DATA_FRAMING_START,
                                  ![s.frame].application_data = <<>>,
                                  ![s.frame].allocated = 0,
                                  !.application_data_offset = 0]
                   ELSE [s EXCEPT !.framing_state = DATA_FRAMING_START]
              ELSE s
    IN  [s1 EXCEPT ![s.frame].application_data_offset =
                       s1.application_data_offset,
                   !.application_data_offset = 0,
                   !.complete = FALSE]

\* the buffer and the length handed to the PONG and to on_message:
\* application_data[0 .. application_data_offset)
DispatchBuffer(s) ==
    SubSeq(s[s.frame].application_data, 1, s.application_data_offset)

\* a faulty variant: a sentinel is passed where on_connect gave no value
PrivateArgumentSentinel ==
    IF plugin_private = "NULL" THEN "sentinel" ELSE plugin_private

\* lines 579 and 719: the first argument of on_message and of
\* on_disconnect is the local plugin_private of the request handler
PrivateArgument == plugin_private

\* lines 554-580: the payload is complete.  A PING is answered through
\* mod_websocket_plugin_send; a final TEXT or BINARY frame invokes
\* on_message.
Dispatch ==
    /\ pc = "dispatch"
    /\ ndispatched' = ndispatched + 1
    /\ LET s == IF ClosesLoop(loc.opcode)
                THEN [loc EXCEPT !.framing_state = DATA_FRAMING_CLOSE]
                ELSE loc
       IN  IF loc.opcode = OPCODE_PING
           THEN /\ send' = Call(Conn, "pong", MESSAGE_TYPE_PONG,
                                DispatchBuffer(loc))
                /\ pc' = "pong"
                /\ UNCHANGED <<loc, calls>>
           ELSE IF Delivers(s)
           THEN /\ calls' = Append(calls,
                      [type |-> MessageType(s.opcode),
                       buffer |-> DispatchBuffer(s),
                       buffer_size |-> s.application_data_offset,
                       private |-> PrivateArgument])
                /\ pc' = "on_message"
                /\ loc' = s
                /\ UNCHANGED send
           ELSE /\ loc' = DropBlock(AfterDispatch(s))
                /\ pc' = LoopPc(AfterDispatch(s))
                /\ UNCHANGED <<send, calls>>
    /\ UNCHANGED <<plugin, plugin_private, response, obb, closing, mutex,
                   wire, pending, sent, disconnects, tdata, active, stopping,
                   hs>>

\* line 569 has returned; lines 577-593
PongReturn ==
    /\ pc = "pong"
    /\ Returned(Conn)
    /\ loc' = DropBlock(AfterDispatch(loc))
    /\ pc' = LoopPc(AfterDispatch(loc))
    /\ UNCHANGED <<plugin, plugin_private, response, obb, closing, mutex,
                   send, wire, pending, sent, ndispatched, calls,
                   disconnects, tdata, active, stopping,
                   hs>>

\* debug_v0.c send_uint, lines 169-181: the decimal digits of u
RECURSIVE Decimal(_)
Decimal(u) ==
    IF u < 10 THEN <<48 + u>> ELSE Decimal(u \div 10) \o <<48 + (u % 10)>>

\* WebSocketServer server = {sizeof(WebSocketServer), 1, ...}
server_version == 1

\* the body of on_message.  debug_v0.c lines 65-134: a TEXT message "close"
\* closes the connection, "version" is answered with the version of the
\* server structure, every other message of the model's client is ignored.
\* threads.c lines 130-135: every message is ignored.
OnMessage ==
    /\ pc = "on_message"
    /\ LET m == calls[Len(calls)]
       IN  IF plugin = "debug_v0" /\ m.type = MESSAGE_TYPE_TEXT
              /\ m.buffer = close
           THEN /\ send' = Call(Conn, "handler", MESSAGE_TYPE_CLOSE, <<>>)
                /\ pc' = "handler_send"
                /\ UNCHANGED loc
           ELSE IF plugin = "debug_v0" /\ m.type = MESSAGE_TYPE_TEXT
                   /\ m.buffer = version
           THEN /\ send' = Call(Conn, "handler", MESSAGE_TYPE_TEXT,
                                Decimal(server_version))
                /\ pc' = "handler_send"
                /\ UNCHANGED loc
           ELSE /\ loc' = DropBlock(AfterDispatch(loc))
                /\ pc' = LoopPc(AfterDispatch(loc))
                /\ UNCHANGED send
    /\ UNCHANGED <<plugin, plugin_private, response, obb, closing, mutex,
                   wire, pending, sent, ndispatched, calls, disconnects,
                   tdata, active, stopping,
                   hs>>

\* a faulty variant: the loop is left when the handler has closed
HandlerSendReturnStops ==
    /\ pc = "handler_send"
    /\ Returned(Conn)
    /\ loc' = DropBlock(AfterDispatch(loc))
    /\ pc' = IF closing = 1 THEN "exit" ELSE LoopPc(AfterDispatch(loc))
    /\ UNCHANGED <<plugin, plugin_private, response, obb, closing, mutex,
                   send, wire, pending, sent, ndispatched, calls,
                   disconnects, tdata, active, stopping,
                   hs>>

\* on_message has returned; lines 581-593
HandlerSendReturn ==
    /\ pc = "handler_send"
    /\ Returned(Conn)
    /\ loc' = DropBlock(AfterDispatch(loc))
    /\ pc' = LoopPc(AfterDispatch(loc))
    /\ UNCHANGED <<plugin, plugin_private, response, obb, closing, mutex,
                   send, wire, pending, sent, ndispatched, calls,
                   disconnects, tdata, active, stopping,
                   hs>>

\* lines 603-611: the buffers are freed and the closing handshake is sent.
\* The locals are dead from here on and what the client sent is never read:
\* both are dropped.
LoopExit ==
    /\ pc = "exit"
    /\ loc' = InitLocals
    /\ pending' = <<>>
    /\ send' = Call(Conn, "exit", MESSAGE_TYPE_CLOSE, <<>>)
    /\ pc' = "closing_send"
    /\ UNCHANGED <<plugin, plugin_private, response, obb, closing, mutex,
                   wire, sent, ndispatched, calls, disconnects,
                   tdata, active, stopping,
                   hs>>

\* line 611 has returned
ClosingSendReturn ==
    /\ pc = "closing_send"
    /\ Returned(Conn)
    /\ pc' = "relock"
    /\ UNCHANGED <<plugin, plugin_private, response, obb, closing, mutex,
                   loc, send, wire, pending, sent, ndispatched, calls,
                   disconnects, tdata, active, stopping,
                   hs>>

\* lines 613-616: lock, state->obb = NULL
FramingLeave ==
    /\ pc = "relock"
    /\ MutexAvailable
    /\ mutex' = Conn
    /\ obb' = "NULL"
    /\ pc' = "unlock"
    /\ UNCHANGED <<plugin, plugin_private, response, closing, loc, send,
                   wire, pending, sent, ndispatched, calls, disconnects,
                   tdata, active, stopping,
                   hs>>

\* a faulty variant: the handler goes on without unlocking the mutex
HandlerUnlockKeepsMutex ==
    /\ pc = "unlock"
    /\ pc' = "disconnect"
    /\ UNCHANGED <<plugin, plugin_private, response, obb, closing, mutex,
                   loc, send, wire, pending, sent, ndispatched, calls,
                   disconnects, tdata, active, stopping,
                   hs>>

\* line 715
HandlerUnlock ==
    /\ pc = "unlock"
    /\ mutex' = Free
    /\ pc' = "disconnect"
    /\ UNCHANGED <<plugin, plugin_private, response, obb, closing, loc, send,
                   wire, pending, sent, ndispatched, calls, disconnects,
                   tdata, active, stopping,
                   hs>>

\* the plugins that supply on_disconnect (debug_v0.c line 42: NULL;
\* threads.c line 42)
HasOnDisconnect == plugin \in {"threads", "bare", "chooser"}

\* lines 722-728: the connection is closed, the mutex is destroyed and the
\* handler returns OK
HandlerReturn ==
    /\ keepalive' = "AP_CONN_CLOSE"
    /\ mutex' = NoMutex
    /\ result' = "OK"
    /\ pc' = "done"

\* a faulty variant: on_disconnect is invoked twice
OnDisconnectTwice ==
    /\ pc = "disconnect"
    /\ disconnects' = disconnects + 2
    /\ stopping' = stopping + 1
    /\ pc' = "join"
    /\ UNCHANGED <<plugin, plugin_private, response, obb, closing, mutex,
                   loc, send, wire, pending, sent, ndispatched, calls,
                   tdata, active, hs>>

\* a faulty variant: on_disconnect is invoked as soon as the loop has
\* been entered, and again at its place
OnDisconnectEarly ==
    /\ pc \in {"disconnect", "read"}
    /\ disconnects' = disconnects + 1
    /\ stopping' = stopping + 1
    /\ pc' = IF pc = "read" THEN "read" ELSE "join"
    /\ UNCHANGED <<plugin, plugin_private, response, obb, closing, mutex,
                   loc, send, wire, pending, sent, ndispatched, calls,
                   tdata, active, hs>>

\* lines 717-720, and threads.c on_disconnect lines 120-121 ("bare" and
\* "chooser" do nothing in it); without on_disconnect, lines 722-728
OnDisconnect ==
    /\ pc = "disconnect"
    /\ IF HasOnDisconnect
       THEN /\ disconnects' = disconnects + 1
            /\ stopping' = IF plugin = "threads" THEN stopping + 1
                           ELSE stopping
            /\ pc' = "join"
            /\ UNCHANGED <<mutex, keepalive, result>>
       ELSE /\ HandlerReturn
            /\ UNCHANGED <<disconnects, stopping>>
    /\ UNCHANGED <<plugin, plugin_private, response, obb, closing,
                   loc, send, wire, pending, sent, ndispatched, calls,
                   tdata, active, request, headers_out, input_filters,
                   protocols, chosen, response_headers,
                   probe, overflow, sink>>

\* threads.c on_disconnect lines 123-128: every thread that was started is
\* joined; then mod_websocket.c lines 722-728
Join ==
    /\ pc = "join"
    /\ \A t \in Threads : tdata[t].at \in {"none", "done"}
    /\ HandlerReturn
    /\ UNCHANGED <<plugin, plugin_private, response, obb, closing,
                   loc, send, wire, pending, sent, ndispatched, calls,
                   disconnects, tdata, active, stopping, request,
                   headers_out, input_filters, protocols, chosen,
                   response_headers,
                   probe, overflow, sink>>

(***************************************************************************)
(* threads.c thread_main, lines 141-174.                                   *)
(***************************************************************************)

\* snprintf(buf, sizeof(buf), "%d: %d", tdata->index, tdata->count)
ThreadMessage(t, count) == Decimal(t - 1) \o <<58, 32>> \o Decimal(count)

\* status 1000, big-endian (lines 164-168)
CloseStatus == <<1000 \div 256, 1000 % 256>>

\* lines 147-159: the loop condition and the call of send, at the start of
\* the thread and when the call of the previous iteration has returned
\* (count--)
ThreadLoop(t) ==
    /\ \/ tdata[t].at = "loop"
       \/ tdata[t].at = "send" /\ Returned(t)
    /\ LET count == IF tdata[t].at = "send"
                    THEN tdata[t].count - 1 ELSE tdata[t].count
       IN  IF count # 0 /\ stopping = 0
           THEN /\ send' = Call(t, "thread", MESSAGE_TYPE_TEXT,
                                ThreadMessage(t, count))
                /\ tdata' = [tdata EXCEPT ![t].at = "send",
                                          ![t].count = count]
           ELSE /\ tdata' = [tdata EXCEPT ![t].at = "dec",
                                          ![t].count = count]
                /\ UNCHANGED send
    /\ UNCHANGED <<plugin, pc, plugin_private, response, obb, closing, mutex,
                   loc, wire, pending, sent, ndispatched, calls, disconnects,
                   active, stopping,
                   hs>>

\* a faulty variant: every thread that finishes closes the connection
ThreadFinishEachCloses(t) ==
    /\ tdata[t].at = "dec"
    /\ active' = active - 1
    /\ send' = Call(t, "thread", MESSAGE_TYPE_CLOSE, CloseStatus)
    /\ tdata' = [tdata EXCEPT ![t].at = "close"]
    /\ UNCHANGED <<plugin, pc, plugin_private, response, obb, closing, mutex,
                   loc, wire, pending, sent, ndispatched, calls, disconnects,
                   stopping,
                   hs>>

\* lines 162-171: the last thread to finish closes the connection
ThreadFinish(t) ==
    /\ tdata[t].at = "dec"
    /\ active' = active - 1
    /\ IF active' = 0
       THEN /\ send' = Call(t, "thread", MESSAGE_TYPE_CLOSE, CloseStatus)
            /\ tdata' = [tdata EXCEPT ![t].at = "close"]
       ELSE /\ tdata' = [tdata EXCEPT ![t].at = "done"]
            /\ UNCHANGED send
    /\ UNCHANGED <<plugin, pc, plugin_private, response, obb, closing, mutex,
                   loc, wire, pending, sent, ndispatched, calls, disconnects,
                   stopping,
                   hs>>

\* line 170 has returned; line 173
ThreadClosed(t) ==
    /\ tdata[t].at = "close"
    /\ Returned(t)
    /\ tdata' = [tdata EXCEPT ![t].at = "done"]
    /\ UNCHANGED <<plugin, pc, plugin_private, response, obb, closing, mutex,
                   loc, send, wire, pending, sent, ndispatched, calls,
                   disconnects, active, stopping,
                   hs>>

(***************************************************************************)
(* Specifications.                                                         *)
(***************************************************************************)

\* the steps of the connection thread and of its client
ConnStep(F, max, whole) ==
    \/ ClientSend(F, max)
    \/ MethodHandler
    \/ OnConnect
    \/ FramingEnter
    \/ ReadBlock(whole)
    \/ ReadZero
    \/ SwitchNext
    \/ Dispatch
    \/ PongReturn
    \/ OnMessage
    \/ LoopExit
    \/ ClosingSendReturn
    \/ FramingLeave
    \/ HandlerUnlock
    \/ OnDisconnect
    \/ SendLock(Conn)
    \/ SendHeader(Conn)
    \/ SendPayload(Conn)
    \/ SendFlush(Conn)

\* the steps of sender thread t of the threads plugin
SenderStep(t) ==
    \/ ThreadLoop(t)
    \/ ThreadFinish(t)
    \/ ThreadClosed(t)
    \/ SendLock(t)
    \/ SendHeader(t)
    \/ SendPayload(t)
    \/ SendFlush(t)

ThreadStep == \E t \in Threads : SenderStep(t)

\* one connection served by the debug_v0 plugin; the read blocks cut the
\* byte stream anywhere
Init == \E r \in FramingRequests : InitWith("debug_v0", r)

Next == ConnStep(Frames, MaxFrames, FALSE) \/ HandlerSendReturn

Spec == Init /\ [][Next]_vars

\* the frames the client of SpecThreads chooses from
ThreadFrames ==
    { Masked(1, OPCODE_PING, K1, x),
      Masked(1, OPCODE_TEXT, K1, ab),
      Masked(1, OPCODE_CLOSE, K1, <<>>),
      ClientFrame(1, 4, OPCODE_TEXT, 1, 7, K1, ab) }

\* one connection served by the threads plugin, whose sender threads write
\* while the loop reads; every read returns all the client has sent
InitThreads == InitWith("threads", PlainRequest)

NextThreads == ConnStep(ThreadFrames, MaxThreadFrames, TRUE) \/ Join \/ ThreadStep

SpecThreads == InitThreads /\ [][NextThreads]_vars

\* the same connection, or one served by a plugin whose on_connect sends
\* before it returns
InitEarly == \E p \in {"threads", "greeter"} : InitWith(p, PlainRequest)

NextEarly == NextThreads \/ ConnectSendReturn \/ SendRelock(Conn)

SpecEarly == InitEarly /\ [][NextEarly]_vars

\* the connection thread from the exit of the loop to the return of the
\* handler (lines 603-616 and 715-728)
AfterLoop ==
    \/ LoopExit
    \/ ClosingSendReturn
    \/ FramingLeave
    \/ HandlerUnlock
    \/ OnDisconnect
    \/ Join
    \/ SendLock(Conn)
    \/ SendHeader(Conn)
    \/ SendPayload(Conn)
    \/ SendFlush(Conn)

\* the same, with the system scheduling every thread that can run: the
\* connection thread once it has left the loop, and each sender thread
FairSpecThreads ==
    /\ SpecThreads
    /\ WF_vars(AfterLoop)
    /\ \A t \in Threads : WF_vars(SenderStep(t))

\* the plugins of SpecHandshake: debug_v0, and three that use what the
\* plugin interface allows and the plugins of the repository do not
HandshakePlugins == {"debug_v0", "chooser", "greeter", "bare"}

\* the frames the client of SpecHandshake chooses from
HandshakeFrames ==
    { Masked(1, OPCODE_PING, K1, x),
      Masked(1, OPCODE_TEXT, K1, version),
      ClientFrame(1, 0, OPCODE_TEXT, 0, 7, K0, ab) }

\* one request of any kind, for a location bound to any of the plugins, and
\* the connection that follows when it is accepted; the X- headers, which
\* only debug_v0 reads, are sent to debug_v0 only
InitHandshake ==
    \E p \in HandshakePlugins : \E r \in Requests :
        /\ p # "debug_v0" =>
              DOMAIN r.headers_in \cap
                  {"X-Refuse-Connection", "X-Choose-Subprotocol"} = {}
        /\ InitWith(p, r)

NextHandshake ==
    \/ ConnStep(HandshakeFrames, MaxHandshakeFrames, TRUE)
    \/ HandlerSendReturn
    \/ ConnectSendReturn
    \/ SendRelock(Conn)
    \/ Join

SpecHandshake == InitHandshake /\ [][NextHandshake]_vars

\* the handshake of the example of the protocol, and the one of the other
\* connections, for a location bound to any of the plugins
AcceptKeys == {SampleKey, Str("a2V5")}
InitAccept ==
    \E p \in HandshakePlugins : \E key \in AcceptKeys :
        InitWith(p, MakeRequest("websocket-handler", "M_GET",
                                Str("websocket"), Str("Upgrade"), Str("h"),
                                key, Str("o"), Str("7"), NULL, NULL, NULL))
SpecAccept == InitAccept /\ [][NextHandshake]_vars

\* a payload of n bytes "x"
Payload(n) == [i \in 1..n |-> 120]

\* the frames the client of SpecOversize chooses from: control frames whose
\* length is announced in the 7-bit, the 16-bit and the 64-bit form, and
\* the messages debug_v0 answers
OversizeFrames ==
    { Masked(1, OPCODE_PING, K1, Payload(125)),
      ClientFrame(1, 0, OPCODE_PING, 1, 16, K1, Payload(126)),
      ClientFrame(1, 0, OPCODE_PING, 1, 64, K1, Payload(126)),
      ClientFrame(1, 0, OPCODE_PONG, 1, 16, K1, Payload(126)),
      ClientFrame(1, 0, OPCODE_CLOSE, 1, 16, K1, Payload(126)),
      ClientFrame(1, 0, OPCODE_PING, 0, 16, K0, Payload(126)),
      Masked(1, OPCODE_TEXT, K1, version),
      Masked(1, OPCODE_TEXT, K1, close) }

\* one connection served by the debug_v0 plugin, with control frames at and
\* beyond the limit of 125 bytes; every read returns all the client has sent
NextOversize ==
    ConnStep(OversizeFrames, MaxOversizeFrames, TRUE) \/ HandlerSendReturn

SpecOversize == Init /\ [][NextOversize]_vars

\* ---------------------------------------------------------------------
\* Extended payload lengths.  The client frames of this specification say
\* their length in two or eight bytes of the client's choice, whatever
\* payload follows: the lengths are those around payload_limit, beyond 32
\* bits, the largest positive one and those with the high bit set.
\* ---------------------------------------------------------------------

ExtendedLengths ==
    { <<0, 2>>, <<255, 255>>,
      <<0, 0, 0, 0, 0, 0, 0, 2>>,
      <<0, 0, 0, 0, 2, 0, 0, 0>>,
      <<0, 0, 0, 0, 2, 0, 0, 1>>,
      <<0, 0, 0, 1, 0, 0, 0, 0>>,
      <<0, 128, 0, 0, 0, 0, 0, 0>>,
      <<127, 255, 255, 255, 255, 255, 255, 255>>,
      <<128, 0, 0, 0, 0, 0, 0, 0>>,
      <<128, 0, 0, 0, 0, 0, 0, 2>>,
      <<255, 255, 255, 255, 255, 255, 255, 255>> }

\* a final masked binary frame that announces `length` and brings `payload`
LengthFrame(length, payload) ==
    [fin |-> 1, rsv |-> 0, opcode |-> OPCODE_BINARY, masked |-> 1,
     lenform |-> IF Len(length) = 2 THEN 16 ELSE 64, key |-> K1,
     payload |-> payload, length |-> length]

LengthBytes(f) ==
    <<f.fin * 128 + f.rsv * 16 + f.opcode,
      f.masked * 128 + (IF f.lenform = 16 THEN 126 ELSE 127)>>
    \o f.length \o f.key \o ClientCipher(f)

\* every length with nothing of the payload sent yet, and the length 2 in
\* both forms with its payload
LengthFrames ==
    {LengthFrame(length, <<>>) : length \in ExtendedLengths}
    \cup {LengthFrame(<<0, 2>>, ab),
          LengthFrame(<<0, 0, 0, 0, 0, 0, 0, 2>>, ab)}

\* the frames of the shortest length form next to them
ShortFrames ==
    {Masked(1, OPCODE_PING, K1, x), Masked(1, OPCODE_TEXT, K1, version)}

\* the client sends a frame where the decoder expects one
ClientSendLength(F, max) ==
    /\ pc = "read"
    /\ pending = <<>>
    /\ Len(sent) < max
    /\ loc.framing_state = DATA_FRAMING_START
    /\ \E f \in F :
          /\ pending' = LengthBytes(f)
          /\ sent' = Append(sent, f)
    /\ UNCHANGED <<plugin, pc, plugin_private, response, obb, closing, mutex,
                   loc, send, wire, ndispatched, calls, disconnects,
                   tdata, active, stopping,
                   hs>>

InitLengths ==
    /\ InitConnection("debug_v0", PlainRequest)
    /\ probe = NoProbe
    /\ sink = "sound"
    /\ overflow \in OverflowOutcomes

\* one connection served by the debug_v0 plugin; a read returns any part
\* of what the client has sent
NextLengths ==
    \/ ClientSendLength(LengthFrames, MaxLengthFrames)
    \/ ConnStep(ShortFrames, MaxLengthFrames, FALSE)
    \/ HandlerSendReturn

SpecLengths == InitLengths /\ [][NextLengths]_vars

\* ---------------------------------------------------------------------
\* Fragments of one message whose lengths add up beyond payload_limit:
\* a fragment of two bytes, and fragments that announce payload_limit
\* bytes and have sent none of them yet.
\* ---------------------------------------------------------------------

\* a masked frame that announces `length` and brings `payload`
FragmentFrame(fin, opcode, length, payload) ==
    [fin |-> fin, rsv |-> 0, opcode |-> opcode, masked |-> 1,
     lenform |-> IF Len(length) = 2 THEN 16 ELSE 64, key |-> K1,
     payload |-> payload, length |-> length]

FragmentFrames ==
    { FragmentFrame(0, OPCODE_TEXT, <<0, 2>>, ab),
      FragmentFrame(1, OPCODE_TEXT, <<0, 0, 0, 0, 2, 0, 0, 0>>, <<>>),
      FragmentFrame(0, OPCODE_CONTINUATION, <<0, 2>>, ab),
      FragmentFrame(1, OPCODE_CONTINUATION, <<0, 2>>, ab),
      FragmentFrame(1, OPCODE_CONTINUATION, <<0, 0, 0, 0, 2, 0, 0, 0>>,
                    <<>>) }

\* one connection served by the debug_v0 plugin; a read returns any part
\* of what the client has sent
NextFragments ==
    \/ ClientSendLength(FragmentFrames, MaxFragmentFrames)
    \/ ConnStep(ShortFrames, MaxFragmentFrames, FALSE)
    \/ HandlerSendReturn

SpecFragments == Init /\ [][NextFragments]_vars

\* ---------------------------------------------------------------------
\* An output whose writes and flushes can fail, each on its own.
\* ---------------------------------------------------------------------

InitSink ==
    /\ InitConnection("debug_v0", PlainRequest)
    /\ probe = NoProbe
    /\ overflow = "wraps"
    /\ sink = "faulty"

\* one connection served by the debug_v0 plugin, whose sends are the
\* PONG, the reply to "version" and the closing CLOSE
\* the frames of the client of SpecSink: two that are answered and one
\* that breaks the protocol
SinkFrames == ShortFrames \cup {ClientFrame(1, 4, OPCODE_TEXT, 1, 7, K1, ab)}

NextSink == ConnStep(SinkFrames, MaxSinkFrames, TRUE) \/ HandlerSendReturn

SpecSink == InitSink /\ [][NextSink]_vars

\* frames with an opcode the protocol reserves, final or not, with and
\* without payload, among frames the decoder knows
ReservedOpcodes == {3, 7, 11, 15}
UnknownFrames ==
    { Masked(fin, opcode, K1, payload) :
        fin \in {0, 1}, opcode \in ReservedOpcodes, payload \in {<<>>, ab} }
    \cup ShortFrames \cup {Masked(0, OPCODE_TEXT, K1, ab)}

NextUnknown ==
    ConnStep(UnknownFrames, MaxUnknownFrames, FALSE) \/ HandlerSendReturn

SpecUnknown == Init /\ [][NextUnknown]_vars

\* the frames of the client whose reads are cut anywhere in its byte
\* stream: messages debug_v0 answers, fragments, control frames with and
\* without payload, an extended length, a protocol violation
CutFrames ==
    { Masked(1, OPCODE_TEXT, K1, close),
      Masked(1, OPCODE_TEXT, K1, version),
      Masked(0, OPCODE_TEXT, K1, ab),
      Masked(1, OPCODE_CONTINUATION, K1, abcde),
      Masked(1, OPCODE_PING, K1, x),
      Masked(1, OPCODE_PING, K0, <<>>),
      Masked(1, OPCODE_CLOSE, K1, <<>>),
      ClientFrame(1, 0, OPCODE_BINARY, 1, 16, K1, ab),
      ClientFrame(1, 4, OPCODE_TEXT, 1, 7, K1, ab) }

RECURSIVE StreamOf(_)
\* the bytes of a sequence of frames, as they travel
StreamOf(fs) ==
    IF fs = <<>> THEN <<>> ELSE ClientBytes(Head(fs)) \o StreamOf(Tail(fs))

\* the client sends two or more frames of F at once, at most max in all:
\* a read block may end anywhere in them and may hold the end of one frame
\* and the start of the next
ClientBurst(F, max) ==
    /\ pc = "read"
    /\ pending = <<>>
    /\ \E k \in 2..(max - Len(sent)) : \E fs \in [1..k -> F] :
          /\ pending' = StreamOf(fs)
          /\ sent' = sent \o fs
    /\ UNCHANGED <<plugin, pc, plugin_private, response, obb, closing, mutex,
                   loc, send, wire, ndispatched, calls, disconnects,
                   tdata, active, stopping,
                   hs>>

NextCuts ==
    \/ ConnStep(CutFrames, MaxCutFrames, FALSE)
    \/ ClientBurst(CutFrames, MaxCutFrames)
    \/ HandlerSendReturn

SpecCuts == Init /\ [][NextCuts]_vars

\* ---------------------------------------------------------------------
\* The header of a sent frame on its own: mod_websocket_plugin_send builds
\* it from the type and the length of the buffer alone (lines 236-281), so
\* lengths far beyond the buffers of the other specifications are drawn
\* here, on both sides of every limit of the three length forms.
\* ---------------------------------------------------------------------

SendTypes ==
    {MESSAGE_TYPE_TEXT, MESSAGE_TYPE_BINARY, MESSAGE_TYPE_PING,
     MESSAGE_TYPE_PONG, MESSAGE_TYPE_CLOSE}

\* buffer_size of the call, the payload_length of line 230
SendLengths ==
    {0, 1, 125, 126, 127, 255, 256, 65535, 65536, 65537, 16777215, 16777216,
     33554432, 1073741823}

RECURSIVE AccumulateAll(_, _)
\* lines 464-466 and 481-484 over the length bytes of a header
AccumulateAll(payload_length, bytes) ==
    IF bytes = <<>> THEN payload_length
    ELSE AccumulateAll(LengthAccumulate(payload_length, Head(bytes)),
                       Tail(bytes))

\* the payload length the decoder reads from a header: line 459, then the
\* two (line 461) or eight (line 463) bytes that follow, accumulated from 0
HeaderLength(header) ==
    LET payload_length == FRAME_GET_PAYLOAD_LEN(header[2])
    IN  IF payload_length = 126 THEN AccumulateAll(0, SubSeq(header, 3, 4))
        ELSE IF payload_length = 127
             THEN AccumulateAll(0, SubSeq(header, 3, 10))
             ELSE payload_length

InitHeader ==
    /\ InitConnection("debug_v0", PlainRequest)
    /\ overflow = "wraps"
    /\ sink = "sound"
    /\ \E type \in SendTypes, payload_length \in SendLengths :
           probe = [at |-> "call", type |-> type,
                    payload_length |-> payload_length,
                    header |-> <<>>, read |-> 0]

\* lines 236-281: the opcode of the type and the header of the frame
HeaderWrite ==
    /\ probe.at = "call"
    /\ probe' = [probe EXCEPT
                    !.header = SendHeaderBytes(SendOpcode(probe.type),
                                               probe.payload_length),
                    !.at = "written"]
    /\ UNCHANGED <<plugin, pc, plugin_private, response, obb, closing, mutex,
                   loc, send, wire, pending, sent, ndispatched, calls,
                   disconnects, tdata, active, stopping, request, headers_out,
                   input_filters, protocols, keepalive, result, chosen,
                   response_headers, overflow, sink>>

\* the length of the written header as the decoder accumulates it
HeaderRead ==
    /\ probe.at = "written"
    /\ probe' = [probe EXCEPT !.read = HeaderLength(probe.header),
                              !.at = "read"]
    /\ UNCHANGED <<plugin, pc, plugin_private, response, obb, closing, mutex,
                   loc, send, wire, pending, sent, ndispatched, calls,
                   disconnects, tdata, active, stopping, request, headers_out,
                   input_filters, protocols, keepalive, result, chosen,
                   response_headers, overflow, sink>>

NextHeader == HeaderWrite \/ HeaderRead

SpecHeader == InitHeader /\ [][NextHeader]_vars

(***************************************************************************)
(* What the output holds, read back from the chunks ap_fwrite was given.   *)
(***************************************************************************)

\* the payload length a server header announces
AnnouncedLength(h) ==
    IF h[2] < 126 THEN h[2]
    ELSE IF h[2] = 126 THEN h[3] * 256 + h[4]
    ELSE -1

\* the chunks i and j were written by the same call of send
SameCall(i, j) ==
    wire[i].by = wire[j].by /\ wire[i].call = wire[j].call

\* the header at position i of the output is a whole frame with what
\* follows it: it announces no payload, or the next chunk is the payload of
\* the same call with the announced length, or the call that wrote it is
\* still about to write the payload
WholeFrameAt(i) ==
    \/ AnnouncedLength(wire[i].bytes) = 0
    \/ /\ i < Len(wire)
       /\ wire[i + 1].part = "payload"
       /\ SameCall(i, i + 1)
       /\ Len(wire[i + 1].bytes) = AnnouncedLength(wire[i].bytes)
    \/ /\ i = Len(wire)
       /\ send[wire[i].by].at = "payload"
       /\ send[wire[i].by].call = wire[i].call
       /\ Len(send[wire[i].by].buffer) = AnnouncedLength(wire[i].bytes)

\* C1: for every interleaving of the send calls of the sender threads and
\* of the read loop, the output is a concatenation of whole frames, each
\* the header and then the payload of one call with no chunk of another
\* call in between, and the frames of one thread are in the order of its
\* calls.
C1_WholeFramesInOrder ==
    /\ \A i \in 1..Len(wire) :
          /\ wire[i].part = "header" => WholeFrameAt(i)
          /\ wire[i].part = "payload" =>
                 /\ i > 1
                 /\ wire[i - 1].part = "header"
                 /\ SameCall(i - 1, i)
    /\ \A i, j \in 1..Len(wire) :
          (i < j /\ wire[i].by = wire[j].by) => wire[i].call <= wire[j].call

\* both sender threads and the read loop have frames in the output, one
\* thread has two, and the last frame has a payload
C1_Witness ==
    /\ {wire[i].by : i \in 1..Len(wire)} = AllThreads
    /\ \E i, j \in 1..Len(wire) :
          /\ wire[i].by \in Threads
          /\ wire[i].by = wire[j].by
          /\ wire[i].call < wire[j].call
    /\ wire[Len(wire)].part = "payload"

\* the header at position i is that of a CLOSE frame
IsCloseHeader(i) ==
    /\ wire[i].part = "header"
    /\ FRAME_GET_OPCODE(wire[i].bytes[1]) = OPCODE_CLOSE

\* C2: once a CLOSE frame has been sent, every later call of send, from
\* any thread and of any type, writes nothing and returns 0: the output
\* holds nothing after the CLOSE frame, with closing set only the call
\* that set it is past the test of line 239, and a call that has returned
\* without a chunk in the output has returned 0.
C2_NothingAfterClose ==
    /\ \A i, j \in 1..Len(wire) :
          (IsCloseHeader(i) /\ i < j) =>
              (SameCall(i, j) /\ wire[j].part = "payload")
    /\ (\E i \in 1..Len(wire) : IsCloseHeader(i)) => closing = 1
    /\ \A t \in AllThreads :
          /\ (closing = 1 /\ send[t].at \in {"payload", "flush"}) =>
                 /\ SetsClosing(send[t].type)
                 /\ wire[Len(wire)].by = t
                 /\ wire[Len(wire)].call = send[t].call
          /\ (send[t].at = "idle" /\ send[t].call > 0
                /\ ~ \E i \in 1..Len(wire) :
                       wire[i].by = t /\ wire[i].call = send[t].call) =>
                 send[t].written = 0

\* a CLOSE frame is in the output, and a sender thread has since had a call
\* of send refused while the output was still attached
C2_Witness ==
    /\ \E i \in 1..Len(wire) : IsCloseHeader(i)
    /\ obb # "NULL"
    /\ \E t \in Threads :
          /\ send[t].at = "idle"
          /\ send[t].call > 0
          /\ send[t].type = MESSAGE_TYPE_INVALID
          /\ ~ \E i \in 1..Len(wire) :
                 wire[i].by = t /\ wire[i].call = send[t].call

(***************************************************************************)
(* The reference the read loop is compared with: what a sequence of        *)
(* inbound frames means by the framing rules (a message is the payloads of *)
(* a first frame and its continuation frames, of the type of the first),   *)
(* and what the debug_v0 plugin answers.                                   *)
(***************************************************************************)

RefInit ==
    [open |-> FALSE, type |-> MESSAGE_TYPE_INVALID, data |-> <<>>,
     calls |-> <<>>, out |-> <<>>, closed |-> FALSE]

RefType(opcode) ==
    IF opcode = OPCODE_TEXT THEN MESSAGE_TYPE_TEXT ELSE MESSAGE_TYPE_BINARY

\* the message (type, data) is delivered: the call, and the reply of debug_v0
RefDeliver(r, type, data) ==
    LET r1 == [r EXCEPT !.open = FALSE, !.type = MESSAGE_TYPE_INVALID,
                        !.data = <<>>,
                        !.calls = Append(@, [type |-> type, buffer |-> data,
                                             buffer_size |-> Len(data)])]
    IN  IF r.closed \/ type # MESSAGE_TYPE_TEXT THEN r1
        ELSE IF data = close
        THEN [r1 EXCEPT !.out = Append(@, [opcode |-> OPCODE_CLOSE,
                                           payload |-> <<>>]),
                        !.closed = TRUE]
        ELSE IF data = version
        THEN [r1 EXCEPT !.out = Append(@, [opcode |-> OPCODE_TEXT,
                                           payload |-> <<49>>])]
        ELSE r1

RefStep(r, f) ==
    IF f.opcode = OPCODE_PING
    THEN IF r.closed THEN r
         ELSE [r EXCEPT !.out = Append(@, [opcode |-> OPCODE_PONG,
                                           payload |-> f.payload])]
    ELSE IF f.opcode \in {OPCODE_TEXT, OPCODE_BINARY}
    THEN IF f.fin = 1
         THEN RefDeliver(r, RefType(f.opcode), f.payload)
         ELSE [r EXCEPT !.open = TRUE, !.type = RefType(f.opcode),
                        !.data = f.payload]
    ELSE IF f.opcode = OPCODE_CONTINUATION
    THEN IF f.fin = 1
         THEN RefDeliver(r, r.type, r.data \o f.payload)
         ELSE [r EXCEPT !.data = @ \o f.payload]
    ELSE r

RECURSIVE RefRun(_)
RefRun(fs) ==
    IF fs = <<>> THEN RefInit
    ELSE RefStep(RefRun(SubSeq(fs, 1, Len(fs) - 1)), fs[Len(fs)])

\* the frames the loop has dispatched
Dispatched == SubSeq(sent, 1, ndispatched)

\* the calls of on_message, without the private value
CallsMade ==
    [i \in 1..Len(calls) |->
        [type |-> calls[i].type, buffer |-> calls[i].buffer,
         buffer_size |-> calls[i].buffer_size]]

\* a message of three fragments
ThreeFragments ==
    <<Masked(0, OPCODE_TEXT, K1, ab),
      Masked(0, OPCODE_CONTINUATION, K1, x),
      Masked(1, OPCODE_CONTINUATION, K1, abcde)>>

\* C3: a message split into a TEXT or BINARY frame and CONTINUATION frames,
\* FIN set on the last only, is handed to on_message exactly once, after
\* the last frame, with the concatenation of the payloads, its length and
\* the type of the first frame; nothing is handed over after the frames
\* before the last.
C3_ReassembledOnce == CallsMade = RefRun(Dispatched).calls

\* the three fragments have been dispatched, the first two without a call,
\* and the one call has the eight bytes of the message
C3_Witness ==
    /\ sent = ThreeFragments
    /\ ndispatched = 3
    /\ Len(calls) = 1
    /\ calls[1].type = MESSAGE_TYPE_TEXT
    /\ calls[1].buffer = ab \o x \o abcde
    /\ calls[1].buffer_size = 8

RECURSIVE WireFramesFrom(_)
\* the whole frames of the output from chunk i on: opcode and payload
WireFramesFrom(i) ==
    IF i > Len(wire) THEN <<>>
    ELSE IF wire[i].part # "header" THEN WireFramesFrom(i + 1)
    ELSE IF AnnouncedLength(wire[i].bytes) = 0
    THEN <<[opcode |-> FRAME_GET_OPCODE(wire[i].bytes[1]),
            payload |-> <<>>]>> \o WireFramesFrom(i + 1)
    ELSE IF i < Len(wire) /\ wire[i + 1].part = "payload"
    THEN <<[opcode |-> FRAME_GET_OPCODE(wire[i].bytes[1]),
            payload |-> wire[i + 1].bytes]>> \o WireFramesFrom(i + 2)
    ELSE WireFramesFrom(i + 1)

WireFrames == WireFramesFrom(1)

\* the message buffer between two frames: accumulated bytes, remembered
\* opcode, in-progress flag (fin = 0)
MessageInProgress ==
    [data |-> SubSeq(loc.message_frame.application_data, 1,
                     loc.message_frame.application_data_offset),
     opcode |-> loc.message_frame.opcode,
     open |-> loc.message_frame.fin = 0]

\* C4: a PING between two frames of a fragmented message is answered with a
\* PONG of the same payload before the next inbound frame is processed, and
\* the message in progress is not disturbed: between frames the output is
\* what the frames dispatched so far call for, in their order, the message
\* buffer holds the bytes, the opcode and the in-progress flag of the
\* fragments dispatched so far, and on_message is invoked once per message
\* with the whole payload and the type of the first frame.
C4_PingInsideMessage ==
    LET r == RefRun(Dispatched)
    IN  /\ pc \in {"read", "switch", "dispatch"} => WireFrames = r.out
        /\ (pc \in {"read", "switch"}
              /\ loc.framing_state = DATA_FRAMING_START) =>
               /\ MessageInProgress.open = r.open
               /\ r.open =>
                     /\ MessageInProgress.data = r.data
                     /\ MessageType(MessageInProgress.opcode) = r.type
        /\ Len(calls) = Len(r.calls)
        /\ (Len(calls) > 0 /\ ~ r.open) =>
               CallsMade[Len(calls)] = r.calls[Len(calls)]

\* a PING with payload "x" came between the two fragments of a TEXT
\* message: the PONG "x" is the only output and on_message was invoked once
\* with the whole message
C4_Witness ==
    /\ sent = <<Masked(0, OPCODE_TEXT, K1, ab),
                Masked(1, OPCODE_PING, K1, x),
                Masked(1, OPCODE_CONTINUATION, K1, abcde)>>
    /\ ndispatched = 3
    /\ pc = "read"
    /\ WireFrames = <<[opcode |-> OPCODE_PONG, payload |-> x]>>
    /\ Len(calls) = 1
    /\ calls[1].type = MESSAGE_TYPE_TEXT
    /\ calls[1].buffer = ab \o abcde

\* the frame is a control frame with more than 125 bytes of payload
OversizeControl(f) == f.opcode >= 8 /\ Len(f.payload) > 125

\* C5: a control frame whose payload is longer than 125 bytes, in whatever
\* form the length is announced, moves the decoder to CLOSED: it is never
\* dispatched, no PONG is sent for it, and the loop does not wait for more
\* input after it.
C5_OversizeControlCloses ==
    /\ \A i \in 1..Len(sent) : OversizeControl(sent[i]) => ndispatched < i
    /\ \A i \in 1..Len(WireFrames) :
          WireFrames[i].opcode = OPCODE_PONG =>
              Len(WireFrames[i].payload) <= 125
    /\ (sent # <<>> /\ OversizeControl(sent[Len(sent)])) =>
           ~ (pc = "read" /\ pending = <<>>)

(***************************************************************************)
(* The frame being received.  The client sends a frame when everything it  *)
(* sent before has been read, so the frame the loop is reading is the last *)
(* one sent.                                                               *)
(***************************************************************************)

\* the connection thread is in the loop of lines 406-600, between passes
InLoop == pc \in {"read", "switch", "exit"}

LastSent == sent[Len(sent)]

\* a frame has been sent and not been dispatched
Receiving == sent # <<>> /\ ndispatched = Len(sent) - 1

\* the bytes of the last frame that the switch has gone past
Consumed ==
    Len(ClientBytes(LastSent)) - Len(pending)
        - (block_size(loc) - loc.block_offset)

\* the frames before the last one, by the framing rules
Before == RefRun(SubSeq(sent, 1, Len(sent) - 1))

\* the data the buffers hold of the messages and control frames before the
\* last frame: the fragments of the message in progress, nothing else
BuffersUntouched ==
    /\ loc.message_frame.application_data = Before.data
    /\ loc.control_frame.application_data = <<>>

\* C6: an inbound frame whose MASK bit is 0, data or control, moves the
\* decoder to CLOSED at the length byte: it is never dispatched (no
\* on_message, no PONG for it), none of its payload reaches a buffer, and
\* the loop does not read on.
C6_UnmaskedCloses ==
    /\ \A i \in 1..Len(sent) : sent[i].masked = 0 => ndispatched < i
    /\ (sent # <<>> /\ LastSent.masked = 0) =>
           /\ Len(calls) = Len(Before.calls)
           /\ (InLoop /\ Consumed >= 2) =>
                  /\ loc.framing_state = DATA_FRAMING_CLOSE
                  /\ pc # "read"
                  /\ BuffersUntouched

\* the unmasked TEXT frame 81 02 68 69 was cut after the length byte: the
\* loop is left with the payload unread and no call made
C6_Witness ==
    /\ sent = <<ClientFrame(1, 0, OPCODE_TEXT, 0, 7, K0, hi)>>
    /\ pc = "exit"
    /\ Consumed = 2
    /\ pending = hi
    /\ loc.framing_state = DATA_FRAMING_CLOSE
    /\ calls = <<>>
    /\ wire = <<>>

\* the last frame breaks the fragmentation rules: a control opcode without
\* FIN, a CONTINUATION with no message in progress, a new message while one
\* is in progress
BreaksFragmentation ==
    \/ LastSent.opcode >= 8 /\ LastSent.fin = 0
    \/ LastSent.opcode = OPCODE_CONTINUATION /\ ~ Before.open
    \/ LastSent.opcode \in 1..7 /\ Before.open

\* C7: at the first byte of a frame the decoder enforces the fragmentation
\* rules: a control frame without FIN, a CONTINUATION with no message in
\* progress and a TEXT or BINARY frame while a message is in progress move
\* the decoder to CLOSED, and on_message is invoked neither for that frame
\* nor for the message it abandons.
C7_FragmentationRules ==
    (sent # <<>> /\ LastSent.rsv = 0 /\ BreaksFragmentation) =>
        /\ ndispatched < Len(sent)
        /\ Len(calls) = Len(Before.calls)
        /\ (InLoop /\ Consumed >= 1) =>
               /\ loc.framing_state = DATA_FRAMING_CLOSE
               /\ pc # "read"

\* a BINARY frame arrived while the TEXT message of the first frame was in
\* progress: the loop is left at its first byte, with no call made
C7_Witness ==
    /\ sent = <<Masked(0, OPCODE_TEXT, K1, ab),
                Masked(1, OPCODE_BINARY, K1, <<>>)>>
    /\ ndispatched = 1
    /\ pc = "exit"
    /\ Consumed = 1
    /\ loc.framing_state = DATA_FRAMING_CLOSE
    /\ calls = <<>>

\* the positions of the CLOSE headers in the output
CloseHeaders == {i \in 1..Len(wire) : IsCloseHeader(i)}

\* the call of send at the exit of the loop has returned
ExitSendReturned == pc \in {"relock", "unlock", "disconnect", "join", "done"}

\* C8: whatever ends the loop, the loop on exit sends one CLOSE frame with
\* empty payload if and only if no CLOSE frame was sent before on the
\* session, and the server never writes more than one CLOSE frame.
C8_OneClose ==
    /\ Cardinality(CloseHeaders) <= 1
    /\ \A i \in 1..Len(wire) :
          wire[i].site = "exit" =>
              /\ IsCloseHeader(i)
              /\ AnnouncedLength(wire[i].bytes) = 0
    /\ ExitSendReturned => Cardinality(CloseHeaders) = 1

\* a sender thread had sent its CLOSE frame when a frame with RSV1 set
\* ended the loop: the exit has sent none
C8_Witness ==
    /\ sent = <<ClientFrame(1, 4, OPCODE_TEXT, 1, 7, K1, ab)>>
    /\ ExitSendReturned
    /\ \E i \in CloseHeaders : wire[i].site = "thread"
    /\ send[Conn].call = 1
    /\ send[Conn].written = 0

\* C[i] XOR K[i mod 4] for the first n bytes of the payload of frame f as it
\* travels, i counted from 0 within the frame
Unmasked(f, n) ==
    [i \in 1..n |-> BitXor(ClientCipher(f)[i], f.key[((i - 1) % 4) + 1], 8)]

\* C9: the bytes appended to the target buffer for a masked frame with key
\* K and wire payload C are C[i] XOR K[i mod 4], i the index within the
\* frame: it restarts at 0 for every frame, a CONTINUATION frame included,
\* and counts on across read blocks; with an all-zero key the bytes are
\* those of the wire.
C9_Unmasking ==
    (Receiving /\ pc \in {"read", "switch", "dispatch"}
       /\ LastSent.masked = 1
       /\ loc.framing_state = DATA_FRAMING_APPLICATION_DATA) =>
        LET n == Len(LastSent.payload) - loc.payload_length
            base == IF loc.frame = "message_frame" THEN Before.data ELSE <<>>
        IN  /\ n \in 0..Len(LastSent.payload)
            /\ loc[loc.frame].application_data =
                   base \o Unmasked(LastSent, n)
            /\ LastSent.key = K0 =>
                   loc[loc.frame].application_data =
                       base \o SubSeq(ClientCipher(LastSent), 1, n)

\* the CONTINUATION frame "abcde" follows the fragment "ab" and was cut
\* after three bytes of its payload
C9_Witness ==
    /\ sent = <<Masked(0, OPCODE_TEXT, K1, ab),
                Masked(1, OPCODE_CONTINUATION, K1, abcde)>>
    /\ pc = "read"
    /\ loc.framing_state = DATA_FRAMING_APPLICATION_DATA
    /\ loc.payload_length = 2
    /\ loc.message_frame.application_data = ab \o <<97, 98, 99>>

\* the last frame the client sent is one that ends the loop: a CLOSE frame
\* or a frame with a reserved bit set
LastFrameEnds == LastSent.opcode = OPCODE_CLOSE \/ LastSent.rsv # 0

\* C10: when on_connect returned a non-null private value and the input
\* yields a CLOSE frame, a protocol violation, zero bytes or a read error,
\* the loop terminates and on_disconnect is invoked exactly once; it is
\* never invoked twice.  The loop does not wait for input once it has read
\* a frame that ends it, and from the exit of the loop the handler comes to
\* return with on_disconnect invoked once.
C10_DisconnectOnce ==
    /\ [](disconnects <= 1)
    /\ []((pc = "done" /\ plugin_private # "NULL") => disconnects = 1)
    /\ []((sent # <<>> /\ pending = <<>> /\ LastFrameEnds) => pc # "read")
    /\ (pc = "exit" /\ plugin_private # "NULL")
          ~> (pc = "done" /\ disconnects = 1)

\* the handler has returned after a connection whose on_connect returned
\* the data of the plugin, on_disconnect invoked once
C10_Witness ==
    /\ pc = "done"
    /\ plugin_private = "data"
    /\ disconnects = 1
    /\ stopping = 1

(***************************************************************************)
(* C11: refusal by on_connect.                                             *)
(***************************************************************************)

\* on_connect was called and returned NULL, and the handler has returned
Refusal ==
    HasOnConnect /\ pc = "done" /\ result = "OK" /\ plugin_private = "NULL"

\* the upgrade was aborted: no 101 response, the loop never ran (it ends
\* with a CLOSE frame written), no on_message, no on_disconnect
Aborted ==
    /\ response = "none"
    /\ response_headers = EmptyTable
    /\ wire = <<>>
    /\ sent = <<>>
    /\ calls = <<>>
    /\ disconnects = 0

\* C11: when on_connect returns NULL the upgrade is aborted (no 101
\* response, the read loop is never entered, no on_message and no
\* on_disconnect) and the core tells the host to close the connection.
C11_RefusalAborts ==
    Refusal => (Aborted /\ keepalive = "AP_CONN_CLOSE")

(***************************************************************************)
(* C12: a send inside on_connect.                                          *)
(***************************************************************************)

\* on_connect of "greeter" has returned and the connection is served
Greeted == plugin = "greeter" /\ response = "101" /\ pc # "framing"

\* what the server has written starts with the frame of send(TEXT, "hi")
HiFirst ==
    /\ Len(wire) >= 2
    /\ wire[1].site = "on_connect"
    /\ wire[1].bytes \o wire[2].bytes = <<129, 2, 104, 105>>

\* C12: a send(TEXT, "hi") made inside on_connect returns and its frame
\* 81 02 68 69 is the first frame the server writes after the 101 response:
\* once the loop runs, the output starts with this frame.
C12_ConnectSendFirst == Greeted => HiFirst

(***************************************************************************)
(* C13: the order of the callbacks.                                        *)
(***************************************************************************)

\* on_connect has returned a non-null value (or the plugin has none and the
\* core has gone past it)
ConnectReturned ==
    /\ pc \notin {"request", "on_connect", "connect_send"}
    /\ result # "DECLINED"
    /\ HasOnConnect => plugin_private # "NULL"

\* an on_message call has been made and has not returned
InOnMessage == pc \in {"on_message", "handler_send"}

\* the read loop was entered and has been left: the closing handshake was
\* sent and state->obb is NULL again (lines 611-615)
LoopLeft ==
    /\ response = "101"
    /\ obb = "NULL"
    /\ \E i \in 1..Len(wire) : wire[i].site = "exit"

\* a step that invokes on_message
CallsOnMessage == Len(calls') = Len(calls) + 1

\* a step that invokes on_disconnect
CallsOnDisconnect == disconnects' # disconnects

\* C13: the callbacks of a session are on_connect, then on_message calls
\* that never overlap, then on_disconnect: on_message and on_disconnect
\* start only after on_connect has returned, an on_message starts only
\* when none is running and on_disconnect has not been called, and
\* on_disconnect starts once, when no on_message is running and the read
\* loop has been left.
C13_CallbackOrder ==
    [][ /\ CallsOnMessage =>
              (ConnectReturned /\ ~InOnMessage /\ disconnects = 0)
        /\ CallsOnDisconnect =>
              (ConnectReturned /\ ~InOnMessage /\ disconnects = 0
               /\ disconnects' = 1 /\ LoopLeft) ]_vars

\* on_connect, two on_message calls and on_disconnect have all been made
C13_Witness ==
    /\ HasOnConnect
    /\ plugin_private # "NULL"
    /\ Len(calls) = 2
    /\ disconnects = 1
    /\ pc = "done"

(***************************************************************************)
(* C14-C16: the tests of the request.                                      *)
(***************************************************************************)

\* the request handler has looked at the request
Handled == pc # "request"

\* value is a list of tokens, separated by commas and blanks, one of which
\* is token up to case
ContainsToken(value, token) ==
    \E i \in 1..Len(Tokens(value, {44, 32, 9}, <<>>)) :
        strcasecmp(Tokens(value, {44, 32, 9}, <<>>)[i], token) = 0

\* a GET for the handler that asks for an upgrade to WebSocket
AsksForWebSocket(r) ==
    /\ IsWebSocketGet(r)
    /\ "Upgrade" \in DOMAIN r.headers_in
    /\ strcasecmp(r.headers_in["Upgrade"], Str("WebSocket")) = 0

\* the Connection header names Upgrade among its tokens
ConnectionNamesUpgrade(r) ==
    /\ "Connection" \in DOMAIN r.headers_in
    /\ ContainsToken(r.headers_in["Connection"], Str("Upgrade"))

\* Host, key and version are as the handshake wants them
HasHostKeyVersion(r) ==
    /\ {"Host", "Sec-WebSocket-Key", "Sec-WebSocket-Version"}
           \subseteq DOMAIN r.headers_in
    /\ r.headers_in["Sec-WebSocket-Version"] = Str("7")

\* C14: an otherwise valid upgrade request (Sec-WebSocket-Origin included)
\* is accepted when its Connection header contains the token Upgrade, up to
\* case, among other comma-separated tokens.
C14_ConnectionToken ==
    (/\ Handled
     /\ AsksForWebSocket(request)
     /\ HasHostKeyVersion(request)
     /\ "Sec-WebSocket-Origin" \in DOMAIN request.headers_in
     /\ ConnectionNamesUpgrade(request))
    => result # "DECLINED"

\* C15: Sec-WebSocket-Origin is optional: a GET upgrade request with valid
\* Upgrade, Connection, Host, Sec-WebSocket-Key and Sec-WebSocket-Version
\* and no Sec-WebSocket-Origin is accepted: the handler does not decline
\* it, and the handshake goes on to on_connect and the 101 response.
C15_OriginOptional ==
    (/\ Handled
     /\ AsksForWebSocket(request)
     /\ HasHostKeyVersion(request)
     /\ "Connection" \in DOMAIN request.headers_in
     /\ strcasecmp(request.headers_in["Connection"], Str("Upgrade")) = 0
     /\ "Sec-WebSocket-Origin" \notin DOMAIN request.headers_in)
    => result # "DECLINED"

\* the method is not GET, or one of Upgrade, Connection, Host,
\* Sec-WebSocket-Key and Sec-WebSocket-Version is absent or not as the
\* handshake wants it
LacksRequiredItem(r) ==
    \/ r.method_number # "M_GET"
    \/ ~AsksForWebSocket(r)
    \/ ~ConnectionNamesUpgrade(r)
    \/ ~HasHostKeyVersion(r)

\* the handler has left no trace: no session and no mutex, the response
\* headers, the input filters and the connection as the host handed them
\* over, no response, no output, no callback invoked
NoEffect ==
    /\ mutex = NoMutex
    /\ obb = "NULL"
    /\ protocols = <<>>
    /\ headers_out = HostHeaders
    /\ input_filters = HostFilters
    /\ keepalive = "AP_CONN_UNKNOWN"
    /\ response = "none"
    /\ response_headers = EmptyTable
    /\ wire = <<>>
    /\ plugin_private = "NULL"
    /\ chosen = <<>>
    /\ send = [t \in AllThreads |-> IdleSend]
    /\ calls = <<>>
    /\ disconnects = 0

\* C16: if the method is not GET or a required handshake item (Upgrade,
\* Connection, Host, Sec-WebSocket-Key, Sec-WebSocket-Version) is absent or
\* mismatched, the handler returns DECLINED, and a handler that returns
\* DECLINED has had no effect: no session or mutex, response headers and
\* input filters unchanged, no callback invoked.
C16_DeclineHasNoEffect ==
    /\ (Handled /\ LacksRequiredItem(request)) => result = "DECLINED"
    /\ result = "DECLINED" => (pc = "done" /\ NoEffect)

\* a request declined for its version alone
C16_Witness ==
    /\ result = "DECLINED"
    /\ AsksForWebSocket(request)
    /\ ConnectionNamesUpgrade(request)
    /\ DOMAIN request.headers_in =
           {"Upgrade", "Connection", "Host", "Sec-WebSocket-Key",
            "Sec-WebSocket-Origin", "Sec-WebSocket-Version"}
    /\ request.headers_in["Connection"] = Str("Upgrade")
    /\ request.headers_in["Sec-WebSocket-Version"] = Str("13")

(***************************************************************************)
(* C17: the private value without on_connect.                              *)
(***************************************************************************)

\* C17 as the spec has it: when the plugin supplies no on_connect, the
\* private value passed to every on_message and to on_disconnect is a
\* non-null sentinel.
C17_PrivateIsSentinel ==
    ~HasOnConnect =>
        /\ \A i \in 1..Len(calls) : calls[i].private # "NULL"
        /\ disconnects > 0 => PrivateArgument # "NULL"

\* C17, amended: when the plugin supplies no on_connect, the private value
\* passed to every on_message and to on_disconnect is NULL.
C17_PrivateIsNull ==
    ~HasOnConnect =>
        /\ \A i \in 1..Len(calls) : calls[i].private = "NULL"
        /\ disconnects > 0 => PrivateArgument = "NULL"

\* a plugin without on_connect has received a message and on_disconnect
C17_Witness ==
    /\ ~HasOnConnect
    /\ response = "101"
    /\ calls # <<>>
    /\ disconnects = 1

(***************************************************************************)
(* C18: the subprotocol of the response.                                   *)
(***************************************************************************)

\* the names the client offers, in the order of its header
OfferedNames(r) ==
    IF apr_table_get(r.headers_in, "Sec-WebSocket-Protocol") = Str("a, b , c")
    THEN << <<97>>, <<98>>, <<99>> >>
    ELSE <<>>

\* the names the plugin passed to protocol_set during on_connect, without
\* the calls that passed NULL
NamesSet == SelectSeq(chosen, LAMBDA n : n # NULL)

\* C18: when the client offers a non-empty list, the Sec-WebSocket-Protocol
\* header of the 101 response is the first offered name unless the plugin
\* called protocol_set with a name during on_connect, and then the name of
\* the last such call; protocol_count and protocol_index give the offered
\* names in their order, and protocol_index out of range gives NULL, which
\* passed to protocol_set leaves the header as it is.
C18_Subprotocol ==
    (response = "101" /\ OfferedNames(request) # <<>>) =>
        LET names == OfferedNames(request)
        IN  /\ mod_websocket_protocol_count(protocols) = Len(names)
            /\ \A i \in 0..(Len(names) - 1) :
                   mod_websocket_protocol_index(protocols, i) = names[i + 1]
            /\ mod_websocket_protocol_index(protocols, Len(names)) = NULL
            /\ apr_table_get(response_headers, "Sec-WebSocket-Protocol") =
                   IF NamesSet = <<>> THEN names[1]
                   ELSE NamesSet[Len(NamesSet)]

\* the plugin has set the second name and has then passed the NULL of an
\* index out of range: the response carries the second name
C18_Witness ==
    /\ response = "101"
    /\ OfferedNames(request) # <<>>
    /\ chosen = << <<98>>, NULL >>
    /\ apr_table_get(response_headers, "Sec-WebSocket-Protocol") = <<98>>

\* ---------------------------------------------------------------------
\* C19: the header of a sent frame, for every type and payload length
\* ---------------------------------------------------------------------

\* the opcodes of RFC 6455 for the five types a plugin can send
OpcodeOfType(type) ==
    CASE type = MESSAGE_TYPE_TEXT -> 1
      [] type = MESSAGE_TYPE_BINARY -> 2
      [] type = MESSAGE_TYPE_CLOSE -> 8
      [] type = MESSAGE_TYPE_PING -> 9
      [] type = MESSAGE_TYPE_PONG -> 10

\* FIN set, RSV clear, the opcode; then the mask bit clear with the shortest
\* of the three length forms that holds L, most significant byte first
ExpectedHeader(type, L) ==
    <<128 + OpcodeOfType(type)>> \o
    (IF L <= 125 THEN <<L>>
     ELSE IF L <= 65535 THEN <<126>> \o BigEndian(L, 2)
          ELSE <<127>> \o BigEndian(L, 8))

\* C19: for every payload length L and every type a plugin can send, the
\* header that send writes is FIN set, RSV clear, the opcode of the type, the
\* mask bit clear and L in the shortest form (7 bits up to 125, 16 bits up
\* to 65535, 64 bits above), and the decoder's accumulation of its length
\* bytes gives L back.
C19_HeaderRoundTrip ==
    /\ probe.at \in {"written", "read"} =>
           probe.header = ExpectedHeader(probe.type, probe.payload_length)
    /\ probe.at = "read" => probe.read = probe.payload_length

\* a length of the 64-bit form, next to the limit of the 16-bit form, has
\* been written and read back
C19_Witness ==
    /\ probe.at = "read"
    /\ probe.payload_length = 65536
    /\ Len(probe.header) = 10
    /\ probe.read = 65536

\* ---------------------------------------------------------------------
\* C20: what the decoder does with an extended payload length
\* ---------------------------------------------------------------------

\* the length bytes of the frame the client sent last
LastLength == LastSent.length

\* the server has taken the last byte of the extended length of the frame
\* off the connection: two bytes of header and the length bytes are gone
LengthTaken ==
    /\ Len(sent) > 0
    /\ LastSent.lenform # 7
    /\ Len(LengthBytes(LastSent)) - Len(pending) >= 2 + Len(LastLength)

\* it has taken no byte beyond it
OnlyLengthTaken ==
    Len(LengthBytes(LastSent)) - Len(pending) = 2 + Len(LastLength)

\* the high bit of an 8-byte length: negative as a signed 64-bit value
HighBit(length) == Len(length) = 8 /\ length[1] >= 128

RECURSIVE Exceeds(_, _)
\* a > b for two byte strings of one length, most significant byte first
Exceeds(a, b) ==
    IF a = <<>> THEN FALSE
    ELSE IF Head(a) # Head(b) THEN Head(a) > Head(b)
         ELSE Exceeds(Tail(a), Tail(b))

\* more than payload_limit, which two bytes cannot say
TooLong(length) ==
    Len(length) = 8 /\ Exceeds(length, BigEndian(payload_limit, 8))

RECURSIVE ValueOf(_)
\* the number a length in 0..payload_limit says
ValueOf(length) ==
    IF length = <<>> THEN 0
    ELSE ValueOf(SubSeq(length, 1, Len(length) - 1)) * 256
         + length[Len(length)]

\* no buffer has been grown and no payload byte stored
NothingBuffered(s) ==
    /\ s.control_frame.allocated = 0
    /\ s.control_frame.application_data = <<>>
    /\ s.message_frame.allocated = 0
    /\ s.message_frame.application_data = <<>>

\* what the claim says of the read that takes the last length byte
ExtendedLengthOutcome ==
    (pc = "read" /\ ~LengthTaken /\ LengthTaken') =>
        IF HighBit(LastLength') \/ TooLong(LastLength')
        THEN /\ loc'.framing_state = DATA_FRAMING_CLOSE
             /\ NothingBuffered(loc')
        ELSE /\ ~loc'.trapped
             /\ loc'.framing_state # DATA_FRAMING_CLOSE
             /\ OnlyLengthTaken' =>
                    /\ loc'.framing_state = DATA_FRAMING_MASK
                    /\ loc'.mask_index = 0
                    /\ loc'.payload_length = ValueOf(LastLength')
                    /\ NothingBuffered(loc')

ExtendedLengthWhereWraps ==
    [][overflow = "wraps" => ExtendedLengthOutcome]_vars

\* the same for the lengths whose high bit is clear, whatever an overflow
\* does
ExtendedLengthPositive ==
    [][(Len(sent') > 0 /\ LastSent'.lenform # 7 /\ ~HighBit(LastLength'))
          => ExtendedLengthOutcome]_vars

\* ---------------------------------------------------------------------
\* C21: the size of the buffer a message is assembled in
\* ---------------------------------------------------------------------

\* the size the buffer of the message was last grown to (line 519):
\* the bytes already buffered plus the payload length of the frame added
AssemblySize == loc.message_frame.allocated

\* C21: across the fragments of one message, the bytes already buffered
\* plus the payload length of the frame being added never exceed
\* payload_limit.
C21_AssemblyCapped == AssemblySize <= payload_limit

\* ---------------------------------------------------------------------
\* C22: what a positive return value of send says
\* ---------------------------------------------------------------------

\* the last call of send by t has returned a positive count
ReturnedPositive(t) ==
    Returned(t) /\ send[t].call > 0 /\ send[t].written > 0

\* C22: a send call that returns a positive count has handed the whole
\* frame to the output: the header write, the payload write and the flush
\* all succeeded; if one of the three fails, send returns 0.
C22_PositiveMeansWritten ==
    \A t \in AllThreads :
        ReturnedPositive(t) =>
            /\ send[t].header = "ok"
            /\ send[t].payload = "ok"
            /\ send[t].flush = "ok"

\* the part of it that holds: the payload write and the flush succeeded
PositiveMeansPayloadFlushed ==
    \A t \in AllThreads :
        ReturnedPositive(t) =>
            send[t].payload = "ok" /\ send[t].flush = "ok"

\* ---------------------------------------------------------------------
\* C23: the session mutex and the read loop
\* ---------------------------------------------------------------------

\* the connection thread is in mod_websocket_data_framing, past line 404,
\* or back in the handler before its unlock
InOrAfterLoop ==
    pc \in {"read", "switch", "dispatch", "pong", "on_message",
            "handler_send", "exit", "closing_send", "relock", "unlock"}

\* it is inside the locked part of a send it called itself
InOwnSend ==
    /\ pc \in {"pong", "handler_send", "closing_send"}
    /\ send[Conn].at \in {"locked", "payload", "flush"}

\* C23: the thread of the read loop does not hold the session mutex while
\* it waits for input nor while on_message runs; it holds it only inside
\* its own send calls and from the exit of the loop to the unlock of the
\* request handler.  Hence every call of send, by the loop or by another
\* thread while the loop waits for input, acquires the mutex and returns.
C23_MutexInLoop ==
    /\ []((pc \in {"read", "on_message"}) => mutex # Conn)
    /\ []((InOrAfterLoop /\ mutex = Conn) => (InOwnSend \/ pc = "unlock"))
    /\ \A t \in AllThreads :
          (InOrAfterLoop /\ send[t].at = "lock") ~> Returned(t)

\* a sender thread is inside send, holding the mutex, while the loop waits
\* for input and the connection thread has sent a PONG before
C23_Witness ==
    /\ pc = "read"
    /\ \E t \in Threads : mutex = t /\ send[t].at = "flush"
    /\ send[Conn].call > 0

(***************************************************************************)
(* C24                                                                     *)
(***************************************************************************)
\* "s3pPLMBiTxaQ9kYGzzhZRbK+xOo="
SampleAccept ==
    <<115, 51, 112, 80, 76, 77, 66, 105, 84, 120, 97, 81, 57, 107, 89, 71,
      122, 122, 104, 90, 82, 98, 75, 43, 120, 79, 111, 61>>

SampleOffered ==
    apr_table_get(request.headers_in, "Sec-WebSocket-Key") = SampleKey

\* C24: for the key "dGhlIHNhbXBsZSBub25jZQ==" the handshake sets
\* Sec-WebSocket-Accept to "s3pPLMBiTxaQ9kYGzzhZRbK+xOo=", and that is the
\* value the 101 response carries.
C24_SampleAccept ==
    /\ (SampleOffered /\ pc = "on_connect") =>
           apr_table_get(headers_out, "Sec-WebSocket-Accept") = SampleAccept
    /\ (SampleOffered /\ response = "101") =>
           apr_table_get(response_headers, "Sec-WebSocket-Accept")
               = SampleAccept

C24_Witness ==
    /\ SampleOffered
    /\ response = "101"
    /\ apr_table_get(response_headers, "Sec-WebSocket-Accept") = SampleAccept

(***************************************************************************)
(* C25                                                                     *)
(***************************************************************************)
\* thread t of the plugin enters a send of a CLOSE, of a TEXT, in this step
PluginCloseIssued(t) ==
    /\ send'[t].call # send[t].call
    /\ send'[t].type = MESSAGE_TYPE_CLOSE
PluginTextIssued(t) ==
    /\ send'[t].call # send[t].call
    /\ send'[t].type = MESSAGE_TYPE_TEXT

\* the threads have been started and the counter of those running is at 0
PluginClosed == active = 0 /\ \E t \in Threads : tdata[t].at # "none"

\* thread u is past its loop: its last TEXT send has returned
PastLoop(u) == tdata[u].at \in {"dec", "close", "done"}

\* C25: in the threads plugin the CLOSE is sent by one thread only, the one
\* that takes the counter of running threads to 0, when every thread has
\* returned from its last TEXT send; no TEXT send of the plugin is issued
\* after that, and on the wire every chunk the plugin wrote for a TEXT
\* precedes the header of its CLOSE.  Once the loop is entered the CLOSE
\* is sent.
C25_CloseAfterEveryText ==
    /\ [][\A t \in Threads :
            PluginCloseIssued(t) =>
                /\ active = 1 /\ active' = 0
                /\ ~ PluginClosed
                /\ \A u \in Threads : PastLoop(u) /\ (u # t => Returned(u))
                /\ \A u \in Threads \ {t} : ~ PluginCloseIssued(u)]_vars
    /\ [][\A t \in Threads : PluginTextIssued(t) => ~ PluginClosed]_vars
    /\ [][PluginClosed => PluginClosed']_vars
    /\ [](\A i, j \in 1..Len(wire) :
             (/\ wire[i].by \in Threads /\ IsCloseHeader(i)
              /\ wire[j].by \in Threads /\ ~ SameCall(i, j)) => j < i)
    /\ InOrAfterLoop ~> PluginClosed

\* the CLOSE of the plugin is on the wire behind the TEXT of both threads
C25_Witness ==
    /\ \E i \in 1..Len(wire) : wire[i].by \in Threads /\ IsCloseHeader(i)
    /\ \A t \in Threads :
          \E j \in 1..Len(wire) :
              wire[j].by = t /\ wire[j].part = "payload"
                  /\ ~ (\E i \in 1..Len(wire) :
                           IsCloseHeader(i) /\ SameCall(i, j))

(***************************************************************************)
(* C26                                                                     *)
(***************************************************************************)
\* on_disconnect of the threads plugin is running or about to run
Disconnecting == plugin = "threads" /\ pc \in {"disconnect", "join"}

\* C26: on_disconnect runs when the connection thread has released the
\* mutex; with the threads plugin every sender thread that waits for the
\* mutex in send while on_disconnect runs returns from send, no TEXT send
\* is entered by a thread that has seen stopping set, every thread exits,
\* and on_disconnect returns with all of them joined.
C26_DisconnectJoins ==
    /\ []((pc \in {"disconnect", "join"}) => mutex # Conn)
    /\ \A t \in Threads :
          (Disconnecting /\ send[t].at = "lock") ~> Returned(t)
    /\ [][\A t \in Threads :
            (stopping # 0 /\ tdata[t].at # "send")
                => ~ PluginTextIssued(t)]_vars
    /\ Disconnecting ~> (pc = "done" /\ result = "OK")
    /\ []((plugin = "threads" /\ pc = "done" /\ disconnects = 1) =>
             \A t \in Threads : tdata[t].at = "done" /\ Returned(t))

\* on_disconnect waits in the join while a sender thread is about to
\* lock the mutex in send
C26_Witness ==
    /\ plugin = "threads" /\ pc = "join"
    /\ \E t \in Threads : send[t].at = "lock" /\ mutex = Free

(***************************************************************************)
(* C27                                                                     *)
(***************************************************************************)
\* the frame the client sent last has an opcode that is none of
\* CONTINUATION, TEXT, BINARY, CLOSE, PING, PONG
LastUnknown ==
    /\ sent # <<>>
    /\ LastSent.opcode \notin {OPCODE_CONTINUATION, OPCODE_TEXT,
                                OPCODE_BINARY, OPCODE_CLOSE, OPCODE_PING,
                                OPCODE_PONG}

\* the payload of the frame sent last has been consumed
LastConsumed == ndispatched = Len(sent)

\* C27: a frame with an unknown opcode is never answered with a PONG nor
\* handed to on_message, the decoder does not go back to reading once the
\* payload of the frame is consumed, and it leaves the loop in the state
\* CLOSE, whatever the FIN bit and the payload of the frame.
C27_UnknownOpcodeCloses ==
    /\ []((LastUnknown /\ LastConsumed) =>
             /\ pc \notin {"read", "switch", "dispatch", "pong",
                            "on_message", "handler_send"}
             /\ pc = "exit" => loc.framing_state = DATA_FRAMING_CLOSE)
    /\ [][LastUnknown =>
             /\ calls' = calls
             /\ send'[Conn].site \notin {"pong", "handler"}
             /\ \A i \in (Len(wire) + 1)..Len(wire') :
                    wire'[i].site = "exit"]_vars

\* a frame that is not final, has a reserved opcode and a payload has been
\* consumed, and the loop is about to be left
C27_Witness ==
    /\ LastUnknown /\ LastConsumed
    /\ LastSent.fin = 0 /\ LastSent.payload # <<>>
    /\ pc = "exit"
    /\ loc.framing_state = DATA_FRAMING_CLOSE

(***************************************************************************)
(* C28                                                                     *)
(***************************************************************************)
\* the connection thread is between the lock of line 697 and the unlock of
\* line 404
BeforeLoop == pc \in {"on_connect", "connect_send", "framing"}

\* C28: nothing is on the wire before the 101 response is sent; between
\* the lock before on_connect and the attachment of the output the
\* connection thread holds the mutex and no sender thread is past the
\* lock of its send; and a send that runs while the output is not
\* attached writes nothing and returns 0.
C28_NothingBefore101 ==
    /\ [](wire # <<>> => response = "101")
    /\ [](BeforeLoop =>
             /\ mutex \in {Conn, Twice(Conn)}
             /\ obb = "NULL"
             /\ \A t \in Threads : send[t].at \in {"idle", "lock"})
    /\ [][obb = "NULL" => wire' = wire]_vars
    /\ [][\A t \in AllThreads :
            (obb = "NULL" /\ send[t].at = "locked" /\ send'[t] # send[t])
                => (send'[t].at = "idle" /\ send'[t].written = 0)]_vars

\* the 101 response is sent, the output is not attached yet, and a sender
\* thread started by on_connect waits for the mutex in send
C28_Witness ==
    /\ pc = "framing" /\ response = "101" /\ obb = "NULL"
    /\ wire = <<>>
    /\ \E t \in Threads : send[t].at = "lock"

(***************************************************************************)
(* C29                                                                     *)
(***************************************************************************)
\* The loop run on a byte stream read one byte per block, with debug_v0
\* and an output that is attached and does not fail: the locals, the calls
\* of on_message, the payloads of the PONGs written and the closing flag.
ByteRunInit ==
    [loc |-> InitLocals, calls |-> <<>>, pongs |-> <<>>, closing |-> 0]

\* lines 554-593 for the locals s of a pass that completed a payload
ByteRunDispatch(o, s) ==
    LET s1 == IF ClosesLoop(s.opcode)
              THEN [s EXCEPT !.framing_state = DATA_FRAMING_CLOSE]
              ELSE s
        buffer == DispatchBuffer(s1)
    IN  IF s.opcode = OPCODE_PING
        THEN [o EXCEPT !.loc = AfterDispatch(s),
                       !.pongs = IF o.closing = 0 THEN Append(@, buffer)
                                 ELSE @]
        ELSE IF Delivers(s1)
        THEN [o EXCEPT !.loc = AfterDispatch(s1),
                       !.calls = Append(@,
                           [type |-> MessageType(s1.opcode),
                            buffer |-> buffer,
                            buffer_size |-> s1.application_data_offset]),
                       !.closing =
                           IF MessageType(s1.opcode) = MESSAGE_TYPE_TEXT
                              /\ buffer = close
                           THEN 1 ELSE @]
        ELSE [o EXCEPT !.loc = AfterDispatch(s1)]

RECURSIVE ByteRunPasses(_)
\* the passes of the switch over the block in o.loc, line 410
ByteRunPasses(o) ==
    LET s == SwitchPass(o.loc)
        o1 == IF s.complete THEN ByteRunDispatch(o, s)
              ELSE [o EXCEPT !.loc = s]
    IN  IF LoopPc(o1.loc) = "switch" THEN ByteRunPasses(o1)
        ELSE [o1 EXCEPT !.loc = DropBlock(@)]

RECURSIVE ByteRun(_)
\* lines 406-407: a byte is read while the state is not CLOSE
ByteRun(bytes) ==
    IF bytes = <<>> THEN ByteRunInit
    ELSE LET o == ByteRun(SubSeq(bytes, 1, Len(bytes) - 1))
         IN  IF o.loc.framing_state = DATA_FRAMING_CLOSE \/ o.loc.trapped
             THEN o
             ELSE ByteRunPasses(
                      [o EXCEPT !.loc.block = <<bytes[Len(bytes)]>>,
                                !.loc.block_offset = 0])

\* the bytes the loop has read, in whatever blocks
BytesRead ==
    LET stream == StreamOf(sent)
    IN  SubSeq(stream, 1, Len(stream) - Len(pending))

\* the payloads of the PONG frames on the wire
RECURSIVE PongsOf(_)
PongsOf(frames) ==
    IF frames = <<>> THEN <<>>
    ELSE (IF Head(frames).opcode = OPCODE_PONG
          THEN <<Head(frames).payload>> ELSE <<>>) \o PongsOf(Tail(frames))

\* C29: what the decoder has done when it waits for the next block or has
\* left the loop depends on the bytes read only, not on the blocks they
\* came in: the locals (the framing state among them), the calls of
\* on_message and the PONGs written are those of reading the same bytes
\* one by one.
C29_CutsDoNotMatter ==
    (pc \in {"read", "exit"}) =>
        LET o == ByteRun(BytesRead)
        IN  /\ loc = o.loc
            /\ CallsMade = o.calls
            /\ PongsOf(WireFrames) = o.pongs
            /\ closing = o.closing

\* two frames were sent at once and the first read ended inside the header
\* of the first
C29_Witness ==
    /\ pc = "read"
    /\ Len(sent) = 2 /\ ndispatched = 0
    /\ Len(BytesRead) = 1

(***************************************************************************)
(* C30                                                                     *)
(***************************************************************************)
\* the handler has sent a CLOSE from inside on_message
HandlerClosed ==
    /\ closing = 1
    /\ \E i \in 1..Len(wire) : wire[i].site = "handler" /\ IsCloseHeader(i)

\* C30: the return of a handler that closed leaves the loop running; while
\* closing is set nothing more is written, so a PING is consumed and its
\* PONG call returns 0; a final TEXT or BINARY frame dispatched after the
\* handler's CLOSE is still handed to on_message; and the loop is left only
\* in the state CLOSE or when the read returns nothing.
C30_CloseKeepsReading ==
    /\ [][(pc = "handler_send" /\ pc' # pc) =>
             pc' \in {"read", "switch", "dispatch"}]_vars
    /\ [][closing = 1 => wire' = wire]_vars
    /\ [][(HandlerClosed /\ pc = "pong" /\ pc' # pc) =>
             /\ send[Conn].written = 0
             /\ pc' \in {"read", "switch", "dispatch"}]_vars
    /\ [][(HandlerClosed /\ pc = "dispatch" /\ Delivers(loc)) =>
             /\ pc' = "on_message"
             /\ Len(calls') = Len(calls) + 1]_vars
    /\ [][(HandlerClosed /\ pc # "exit" /\ pc' = "exit") =>
             \/ loc'.framing_state = DATA_FRAMING_CLOSE
             \/ pc = "read" /\ loc' = loc]_vars

\* after the handler's CLOSE a PING and a message were read: the message
\* was delivered, the CLOSE is all that was written, and the loop waits
\* for more
C30_Witness ==
    /\ HandlerClosed
    /\ pc = "read"
    /\ sent = <<Masked(1, OPCODE_TEXT, K1, close),
                Masked(1, OPCODE_PING, K1, x),
                Masked(1, OPCODE_TEXT, K1, version)>>
    /\ ndispatched = 3
    /\ Len(calls) = 2
    /\ calls[2].buffer = version
    /\ WireFrames = <<[opcode |-> OPCODE_CLOSE, payload |-> <<>>]>>

====
